---- MODULE Spec2Model ----
(***************************************************************************)
(* Model of the WebSocket session layer of valr-typescript-client:         *)
(*   src/src/client/ValrWebSocketClient.ts  (base session)                 *)
(*   src/src/client/AccountWebSocket.ts     (account variant)              *)
(*   src/unnamed/part_014                   (TradeWebSocket, market data)  *)
(*                                                                         *)
(* One session object is modelled.  Its fields are the variables named as  *)
(* in the source.  The transports it created (objects of the `ws` library) *)
(* are the one `this.ws` refers to, given by its readyState, and the bag of *)
(* those the session created and no longer refers to.  The session's       *)
(* callbacks are registered on every transport it creates and are never    *)
(* removed (lines 108-122), so the events of a released transport still    *)
(* reach the session.                                                      *)
(*                                                                         *)
(* JavaScript runs every callback to completion, so every action below is  *)
(* a whole callback or a whole public call.  Application event handlers    *)
(* run synchronously inside emit(); what a handler does is an input of the *)
(* action (a "reaction"): nothing, call disconnect(), or, inside           *)
(* handleMessage's try block, throw.                                       *)
(*                                                                         *)
(* The request signer (RequestSigner, src/src/types/index.ts), the REST    *)
(* client (ValrClient, src/src/index.ts), the HTTP error classification    *)
(* (HttpClient, src/src/utils/http.ts) and the handshake headers of        *)
(* connect() are modelled next to it, each under a specification of its    *)
(* own.                                                                    *)
(***************************************************************************)
EXTENDS Integers, Sequences, FiniteSets, TLC

\* ---------------------------------------------------------------- bounds
MaxTransports == 2
AttemptCap == 2
MaxOrphanTimers == 1
MaxPingTimers == 2
MaxStrLen == 1
MaxTimestamp == 11

\* ------------------------------------------------------------- constants
\* maxReconnectAttempts: config.maxReconnectAttempts || Infinity
Infinity == 1000000

\* "VALR API keys and secrets are 64 characters long"
KeyLength == 64

\* readyState of a transport; one that is CLOSED delivers no further event.
Pending == {"CONNECTING", "OPEN", "CLOSING"}
ReadyStates == Pending \cup {"CLOSED"}

\* What an application handler does when an event is delivered to it.
Reactions == {"none", "disconnect"}
ReactionsInTry == Reactions \cup {"throw"}

\* Inbound payloads: not JSON, the JSON value null, and JSON objects with a
\* type tag.
Payloads == {"BAD_JSON", "NULL", "BALANCE_UPDATE", "MARKET_SUMMARY_UPDATE",
             "SUBSCRIBED"}

CloseCodes == {1000, 1006}

\* The callbacks the session registers (transport events and timers).
CallbackOps == {"open", "message", "error", "close", "timer", "ping"}

VARIABLES
  cfg,                \* this.config (immutable) and the session kind
  options,            \* maxReconnectAttempts of the config object given to
                      \* the constructor
  ws,                 \* this.ws: "undefined", or the readyState of the
                      \* transport it refers to
  released,           \* the transports the session created and no longer
                      \* refers to, counted by readyState (CLOSED ones dropped)
  reconnectAttempts,  \* this.reconnectAttempts
  reconnectTimer,     \* this.reconnectTimer: "undefined", or the handle of a
                      \* timeout that is "pending" or has "fired"
  orphanTimers,       \* pending timeouts whose handle the session overwrote
  isIntentionalClose, \* this.isIntentionalClose
  isConnected,        \* this.isConnected
  isAuthenticated,    \* this.isAuthenticated
  pingIntervals,      \* active setInterval timers of startPing
  op,                 \* the last call or callback that ran
  log,                \* what it emitted, sent and created, in order
  thrown,             \* the exception that left it, or "none"
  hist,               \* history variables (not program state)
  signIn,             \* the params of the last RequestSigner.signRequest call
  signature,          \* what that call returned
  prevCall,           \* history: the call before it, params and result
  client,             \* the ValrClient object: its apiKey, apiSecret and
                      \* subaccountId, or NoClient
  session,            \* the config of a WebSocket session, or NoSession
  wire,               \* the request or handshake last handed to a transport
  outcome             \* the last call: its name, arguments and result

sessionVars ==
  <<cfg, options, ws, released, reconnectAttempts, reconnectTimer, orphanTimers,
    isIntentionalClose, isConnected, isAuthenticated, pingIntervals,
    op, log, thrown, hist>>

signVars == <<signIn, signature, prevCall>>

clientVars == <<client, session, wire, outcome>>

vars == <<sessionVars, signVars, clientVars>>

\* ------------------------------------------------------------ constructor
\* new AccountWebSocket(config) / new TradeWebSocket(config): the account
\* variant throws without both apiKey and apiSecret; maxReconnectAttempts
\* 0 or undefined becomes Infinity.
\* Mutant of Credentialed: the key alone counts.
CredentialedKeyOnly(c) == c.apiKey

Credentialed(c) == c.apiKey /\ c.apiSecret

NormalizeMax(m) == IF m = 0 THEN Infinity ELSE m

\* The option as the caller gives it: left out, or a number.
NotConfigured == [given |-> FALSE, value |-> 0]

Given(n) == [given |-> TRUE, value |-> n]

\* this.config.maxReconnectAttempts of a session constructed with it.
maxReconnectAttempts(option) ==
  IF option.given THEN NormalizeMax(option.value) ELSE Infinity

\* The configurations explored: the option maxReconnectAttempts is left out
\* (0 here, as `|| Infinity` reads it) or 1 or 2; credentials are given whole
\* or not at all; without autoReconnect the attempt limit is never read.
MaxAttemptsOptions == {0, 1, 2}

Configs ==
  { c \in [kind : {"account", "trade"}, apiKey : BOOLEAN, apiSecret : BOOLEAN,
           autoReconnect : BOOLEAN,
           maxReconnectAttempts : {NormalizeMax(m) : m \in MaxAttemptsOptions},
           urlOk : BOOLEAN] :
      /\ c.kind = "account" => Credentialed(c)
      /\ c.apiKey = c.apiSecret
      /\ ~c.autoReconnect => c.maxReconnectAttempts = Infinity }

\* ------------------------------------------------------- the world record
\* The callbacks are written as functions from world to world, so that a
\* handler's nested disconnect() composes with the code around it.
World ==
  [ws |-> ws, released |-> released, reconnectAttempts |-> reconnectAttempts,
   reconnectTimer |-> reconnectTimer, orphanTimers |-> orphanTimers,
   isIntentionalClose |-> isIntentionalClose, isConnected |-> isConnected,
   isAuthenticated |-> isAuthenticated, pingIntervals |-> pingIntervals,
   log |-> <<>>, thrown |-> "none", overflow |-> FALSE, hist |-> hist]

\* History: what the application last asked for, and the course of the
\* current outage.
\*   shutdown      disconnect() was called and the application has not
\*                 called connect() since
\*   shutdownLive  the same, and that disconnect() found the transport
\*                 CONNECTING or OPEN
\*   calm          the application's last action was a connect() on a session
\*                 at rest, and its handlers have only listened since
\*   tries         transports created by the reconnect timer since the last
\*                 open (or since calm began)
\*   exhausted     'Max reconnect attempts reached' was emitted, and since
\*                 then the application has called neither connect() nor
\*                 disconnect() and no transport has opened
\*   wsAuthed      'authenticated' was emitted for the transport this.ws
\*                 refers to
\*   wsCloses      close() calls the session made on that transport
\*   twice         the last two operations were both disconnect()
HistInit ==
  [shutdown |-> FALSE, shutdownLive |-> FALSE, calm |-> FALSE, tries |-> 0,
   exhausted |-> FALSE, wsAuthed |-> FALSE, wsCloses |-> 0, twice |-> FALSE]

\* The end of a call or callback: the world becomes the next state.  Outside
\* a calm outage the attempts are not counted.
Commit(w, name) ==
  /\ ~w.overflow
  /\ ws' = w.ws
  /\ released' = w.released
  /\ reconnectAttempts' = w.reconnectAttempts
  /\ reconnectTimer' = w.reconnectTimer
  /\ orphanTimers' = w.orphanTimers
  /\ isIntentionalClose' = w.isIntentionalClose
  /\ isConnected' = w.isConnected
  /\ isAuthenticated' = w.isAuthenticated
  /\ pingIntervals' = w.pingIntervals
  /\ op' = name
  /\ log' = w.log
  /\ thrown' = w.thrown
  /\ hist' = [w.hist EXCEPT !.twice = (name = "disconnect" /\ op = "disconnect"),
                            !.tries = IF w.hist.calm THEN @ ELSE 0]
  /\ cfg' = cfg
  /\ options' = options
  /\ UNCHANGED <<signVars, clientVars>>

Live(w) == w.ws \in {"OPEN", "CONNECTING"}

\* The transports that can still deliver an event.
Count(w) ==
  (IF w.ws \in Pending THEN 1 ELSE 0)
  + w.released["CONNECTING"] + w.released["OPEN"] + w.released["CLOSING"]

\* The session drops its reference to a transport in state rs.
Release(bag, rs) == IF rs \in Pending THEN [bag EXCEPT ![rs] = @ + 1] ELSE bag

\* Nothing of an earlier connection is left: no pending timer, no transport
\* that can still deliver an event, no counted attempt.
AtRest(w) ==
  /\ w.reconnectTimer # "pending"
  /\ w.orphanTimers = 0
  /\ Count(w) = 0
  /\ w.reconnectAttempts = 0

\* An entry of the log, with the flags as a handler would read them.
Note(w, ev, arg, by) ==
  [w EXCEPT !.log = Append(@, [ev |-> ev, arg |-> arg, by |-> by,
                                conn |-> w.isConnected, auth |-> w.isAuthenticated,
                                shutdown |-> w.hist.shutdown,
                                shutdownLive |-> w.hist.shutdownLive])]

\* ------------------------------------------------------- public methods
\* ws.close() of the transport library: a transport that is CONNECTING or
\* OPEN becomes CLOSING (its 'close' event comes later, from the event
\* loop); a CLOSING or CLOSED one is left as it is.
CloseTransport(rs) == IF rs \in {"CONNECTING", "OPEN"} THEN "CLOSING" ELSE rs

\* Mutant of disconnect(): the transport is closed and the handle kept.
disconnectKeepsHandle(w) ==
  LET w1 == [w EXCEPT !.isIntentionalClose = TRUE,
                      !.reconnectTimer = "undefined",
                      !.hist.shutdown = TRUE,
                      !.hist.shutdownLive = @ \/ Live(w),
                      !.hist.calm = FALSE,
                      !.hist.exhausted = FALSE]
  IN IF w.ws = "undefined" THEN w1
     ELSE [Note(w1, "ws.close", w.hist.wsCloses + 1, "call")
             EXCEPT !.ws = CloseTransport(w.ws),
                    !.hist.wsCloses = @ + 1]

\* disconnect(), lines 132-142.
disconnect(w) ==
  LET w1 == [w EXCEPT !.isIntentionalClose = TRUE,
                      !.reconnectTimer = "undefined",
                      !.hist.shutdown = TRUE,
                      !.hist.shutdownLive = @ \/ Live(w),
                      !.hist.calm = FALSE,
                      !.hist.exhausted = FALSE]
  IN IF w.ws = "undefined" THEN w1
     ELSE [Note(w1, "ws.close", w.hist.wsCloses + 1, "call")
             EXCEPT !.released = Release(@, CloseTransport(w.ws)),
                    !.ws = "undefined",
                    !.hist.wsAuthed = FALSE,
                    !.hist.wsCloses = 0]

\* connect() past its guard, lines 78-126.  `app` tells the application's
\* call from the reconnect timer's.  new WebSocket(url) throws for a
\* malformed URL, and the catch block emits 'error'; this.ws then keeps its
\* old value.
openTransport(w, app) ==
  LET by == IF app THEN "app" ELSE "timer"
      w1 == [w EXCEPT !.isIntentionalClose = FALSE,
                      !.hist.shutdown = IF app THEN FALSE ELSE @,
                      !.hist.shutdownLive = IF app THEN FALSE ELSE @,
                      !.hist.calm = IF app THEN AtRest(w) /\ cfg.urlOk ELSE @,
                      !.hist.tries = IF app THEN 0 ELSE @,
                      !.hist.exhausted = IF app THEN FALSE ELSE @]
  IN IF ~cfg.urlOk THEN Note(w1, "error:FailedToConnect", 0, by)
     ELSE IF Count(w1) >= MaxTransports THEN [w1 EXCEPT !.overflow = TRUE]
     ELSE Note([w1 EXCEPT !.ws = "CONNECTING",
                          !.released = Release(@, w.ws),
                          !.hist.wsAuthed = FALSE,
                          !.hist.wsCloses = 0,
                          !.hist.tries = IF app THEN 0 ELSE @ + 1],
               "create", 0, by)

\* Mutants of connect(): no guard at all; a guard that forgets CONNECTING.
connectNoGuard(w, app) == openTransport(w, app)

connectOpenOnly(w, app) == IF w.ws = "OPEN" THEN w ELSE openTransport(w, app)

\* connect(), lines 73-127.
connect(w, app) == IF Live(w) THEN w ELSE openTransport(w, app)

\* Mutant of send(): only a missing transport is refused.
sendUnlessUndefined(w, type) ==
  IF w.thrown # "none" THEN w
  ELSE IF w.ws = "undefined"
       THEN [w EXCEPT !.thrown = "NotConnected"]
       ELSE Note(w, type, IF w.hist.wsAuthed THEN 1 ELSE 0, "send")

\* send(message), lines 154-161.
send(w, type) ==
  IF w.thrown # "none" THEN w
  ELSE IF w.ws # "OPEN"
       THEN [w EXCEPT !.thrown = "NotConnected"]
       ELSE Note(w, type, IF w.hist.wsAuthed THEN 1 ELSE 0, "send")

\* subscribe(subscriptions): AccountWebSocket.ts 75-80, part_014 137-142.
subscribe(w) == send(w, "SUBSCRIBE")

\* unsubscribe(subscriptions): AccountWebSocket.ts 87-92, part_014 149-154.
unsubscribe(w) == send(w, "UNSUBSCRIBE")

\* ------------------------------------------------------------- emitting
\* What the application's handler of the event does, inside emit().
React(w, h) ==
  CASE h = "disconnect" -> disconnect(w)
    [] h = "throw" -> [w EXCEPT !.thrown = "handler", !.hist.calm = FALSE]
    [] OTHER -> w

\* this.emit(ev, arg): the handlers run synchronously, and what they throw
\* leaves emit().  Nothing runs once an exception is on its way out.
Emit(w, ev, arg, h) ==
  IF w.thrown # "none" THEN w ELSE React(Note(w, ev, arg, h), h)

\* ------------------------------------------------------------ callbacks
\* startPing(), lines 182-188: the interval's handle is not kept.
startPing(w) ==
  IF w.thrown # "none" THEN w
  ELSE IF w.pingIntervals >= MaxPingTimers THEN [w EXCEPT !.overflow = TRUE]
  ELSE [w EXCEPT !.pingIntervals = @ + 1]

\* Mutant of onAuthenticated(): the market-data session subscribes too.
onAuthenticatedAnyKind(w) ==
  IF w.thrown # "none" THEN w ELSE subscribe(w)

\* onAuthenticated(): AccountWebSocket.ts 97-110 subscribes to the default
\* set; part_014 159-162 does nothing.
onAuthenticated(w) ==
  IF w.thrown # "none" THEN w
  ELSE IF cfg.kind = "account" THEN subscribe(w) ELSE w

\* Mutant of handleOpen(): the post-auth hook runs before the event.
handleOpenHookFirst(w, cur, h1, h2) ==
  LET w1 == [w EXCEPT !.isConnected = TRUE,
                      !.reconnectAttempts = 0,
                      !.hist.tries = 0,
                      !.hist.exhausted = FALSE]
      w2 == Emit(w1, "connected", 0, h1)
  IN IF ~Credentialed(cfg) THEN w2
     ELSE LET w3 == onAuthenticated([w2 EXCEPT !.isAuthenticated = TRUE])
              w4 == Emit([w3 EXCEPT !.hist.wsAuthed = @ \/ (cur /\ w3.ws = "OPEN")],
                         "authenticated", 0, h2)
          IN startPing(w4)

\* Mutant of handleOpen(): reconnectAttempts is left as it was.
handleOpenKeepsAttempts(w, cur, h1, h2) ==
  LET w1 == [w EXCEPT !.isConnected = TRUE,
                      !.hist.tries = 0,
                      !.hist.exhausted = FALSE]
      w2 == Emit(w1, "connected", 0, h1)
  IN IF ~Credentialed(cfg) THEN w2
     ELSE LET w3 == [w2 EXCEPT !.isAuthenticated = TRUE,
                               !.hist.wsAuthed = @ \/ (cur /\ w2.ws = "OPEN")]
              w4 == Emit(w3, "authenticated", 0, h2)
          IN startPing(onAuthenticated(w4))

\* handleOpen(), lines 166-180; `cur` tells whether the transport that
\* opened is the one this.ws refers to.
handleOpen(w, cur, h1, h2) ==
  LET w1 == [w EXCEPT !.isConnected = TRUE,
                      !.reconnectAttempts = 0,
                      !.hist.tries = 0,
                      !.hist.exhausted = FALSE]
      w2 == Emit(w1, "connected", 0, h1)
  IN IF ~Credentialed(cfg) THEN w2
     ELSE LET w3 == [w2 EXCEPT !.isAuthenticated = TRUE,
                               !.hist.wsAuthed = @ \/ (cur /\ w2.ws = "OPEN")]
              w4 == Emit(w3, "authenticated", 0, h2)
          IN startPing(onAuthenticated(w4))

\* The typed event of a type tag: AccountWebSocket.ts 115-145 and
\* part_014 167-194.  "" is no typed event.
TypedEvent(kind, tag) ==
  IF kind = "account"
  THEN CASE tag = "ORDER_PROCESSED" -> "order:processed"
         [] tag = "ORDER_STATUS_UPDATE" -> "order:statusUpdate"
         [] tag = "BALANCE_UPDATE" -> "balance:update"
         [] tag = "NEW_ACCOUNT_TRADE" -> "trade:new"
         [] OTHER -> ""
  ELSE CASE tag \in {"AGGREGATED_ORDERBOOK_UPDATE", "FULL_ORDERBOOK_UPDATE"}
              -> "orderbook:update"
         [] tag = "MARKET_SUMMARY_UPDATE" -> "market:summary"
         [] tag = "NEW_TRADE" -> "trade:new"
         [] OTHER -> ""

\* onMessage(message): reading message.type of null throws a TypeError.
onMessage(w, data, h) ==
  IF w.thrown # "none" THEN w
  ELSE IF data = "NULL" THEN [w EXCEPT !.thrown = "TypeError"]
  ELSE IF TypedEvent(cfg.kind, data) = "" THEN w
  ELSE Emit(w, TypedEvent(cfg.kind, data), 0, h)

\* Mutant of handleMessage(): a failure inside try also tears the
\* connection down.
handleMessageTearsDown(w, data, h1, h2, h3) ==
  LET tried == IF data = "BAD_JSON"
               THEN [w EXCEPT !.thrown = "SyntaxError"]
               ELSE onMessage(Emit(w, "message", 0, h1), data, h2)
  IN IF tried.thrown = "none" THEN tried
     ELSE disconnect(Emit([tried EXCEPT !.thrown = "none"], "error:Parse", 0, h3))

\* handleMessage(data), lines 193-207: JSON.parse, the 'message' event and
\* onMessage run inside try; whatever is thrown there is caught and
\* reported as a parse failure.
handleMessage(w, data, h1, h2, h3) ==
  LET tried == IF data = "BAD_JSON"
               THEN [w EXCEPT !.thrown = "SyntaxError"]
               ELSE onMessage(Emit(w, "message", 0, h1), data, h2)
  IN IF tried.thrown = "none" THEN tried
     ELSE Emit([tried EXCEPT !.thrown = "none"], "error:Parse", 0, h3)

\* Mutant of handleError(): the error is taken for the end of the
\* connection.
handleErrorClearsFlags(w, h) ==
  Emit([w EXCEPT !.isConnected = FALSE, !.isAuthenticated = FALSE],
       "error:Transport", 0, h)

\* handleError(error), lines 212-215.
handleError(w, h) == Emit(w, "error:Transport", 0, h)

\* Mutant of attemptReconnect(): > for >=.
attemptReconnectOffByOne(w, h) ==
  IF w.reconnectAttempts > cfg.maxReconnectAttempts
  THEN Emit([w EXCEPT !.hist.exhausted = TRUE], "error:MaxReconnect", 0, h)
  ELSE IF w.reconnectAttempts >= AttemptCap THEN [w EXCEPT !.overflow = TRUE]
  ELSE LET w1 == [w EXCEPT !.reconnectAttempts = @ + 1]
           w2 == Emit(w1, "reconnecting", w1.reconnectAttempts, h)
       IN IF w2.reconnectTimer # "pending"
          THEN [w2 EXCEPT !.reconnectTimer = "pending"]
          ELSE IF w2.orphanTimers >= MaxOrphanTimers
               THEN [w2 EXCEPT !.overflow = TRUE]
               ELSE [w2 EXCEPT !.orphanTimers = @ + 1]

\* attemptReconnect(), lines 237-251.  setTimeout's handle overwrites the
\* field; a pending timeout it referred to keeps running.
attemptReconnect(w, h) ==
  IF w.reconnectAttempts >= cfg.maxReconnectAttempts
  THEN Emit([w EXCEPT !.hist.exhausted = TRUE], "error:MaxReconnect", 0, h)
  ELSE IF w.reconnectAttempts >= AttemptCap THEN [w EXCEPT !.overflow = TRUE]
  ELSE LET w1 == [w EXCEPT !.reconnectAttempts = @ + 1]
           w2 == Emit(w1, "reconnecting", w1.reconnectAttempts, h)
       IN IF w2.reconnectTimer # "pending"
          THEN [w2 EXCEPT !.reconnectTimer = "pending"]
          ELSE IF w2.orphanTimers >= MaxOrphanTimers
               THEN [w2 EXCEPT !.overflow = TRUE]
               ELSE [w2 EXCEPT !.orphanTimers = @ + 1]

\* Mutant of clearFlags: isAuthenticated is left as it was.
clearConnectedOnly(w) == [w EXCEPT !.isConnected = FALSE]

\* The first two statements of handleClose, lines 221-222.
clearFlags(w) == [w EXCEPT !.isConnected = FALSE, !.isAuthenticated = FALSE]

\* Mutant of handleClose(): the reconnect is decided before the events.
handleCloseReconnectFirst(w, code, h1, h2, h3) ==
  LET w1 == clearFlags(w)
      w2 == IF ~w1.isIntentionalClose /\ cfg.autoReconnect
            THEN attemptReconnect(w1, h3)
            ELSE w1
      w3 == Emit(w2, "close", code, h1)
  IN Emit(w3, "disconnected", 0, h2)

\* handleClose(code, reason), lines 220-232.
handleClose(w, code, h1, h2, h3) ==
  LET w1 == clearFlags(w)
      w2 == Emit(w1, "close", code, h1)
      w3 == Emit(w2, "disconnected", 0, h2)
  IN IF ~w3.isIntentionalClose /\ cfg.autoReconnect
     THEN attemptReconnect(w3, h3)
     ELSE w3

\* Mutant of pingTick: the flags are not tested.
pingTickUnguarded(w) == send(w, "PING")

\* The callback of setInterval in startPing, lines 183-187.
pingTick(w) ==
  IF w.isConnected /\ w.isAuthenticated THEN send(w, "PING") ELSE w

\* Mutant of timerFire: the callback does not call connect().
timerFireIdle(w) == Note(w, "timer", 0, "timer")

\* The callback of setTimeout in attemptReconnect, lines 248-250.
timerFire(w) == connect(Note(w, "timer", 0, "timer"), FALSE)

\* ------------------------------------------------------ request signing
\* RequestSigner.signRequest, src/src/types/index.ts 238-257.  A string is
\* a sequence of characters.
Letters == {"a", "b"}

\* The values given for path, body and subaccountId.
Strings == UNION {[1..n -> Letters] : n \in 0..MaxStrLen}

\* The values given for verb: 'get', 'GET', 'Get' and 'put'.
Verbs == {<<"g", "e", "t">>, <<"G", "E", "T">>, <<"G", "e", "t">>, <<"p", "u", "t">>}

\* The lower-case letters in use, each with its upper-case letter.
CasePairs ==
  {<<"a", "A">>, <<"b", "B">>, <<"e", "E">>, <<"g", "G">>, <<"p", "P">>,
   <<"t", "T">>, <<"u", "U">>}

\* A parameter left out of the params object.
Undefined == <<"undefined">>

Secrets == {<<"a">>, <<"A", "a">>}

Timestamps == {1, MaxTimestamp}

SignInputs ==
  [apiSecret : Secrets, timestamp : Timestamps, verb : Verbs, path : Strings,
   body : Strings \cup {Undefined}, subaccountId : Strings \cup {Undefined}]

\* String.prototype.toUpperCase: a lower-case letter becomes its upper-case
\* letter, every other character stays.
UpperOf(ch) ==
  IF \E pair \in CasePairs : pair[1] = ch
  THEN (CHOOSE pair \in CasePairs : pair[1] = ch)[2]
  ELSE ch

toUpperCase(str) == [i \in DOMAIN str |-> UpperOf(str[i])]

\* `${timestamp}` of a non-negative integer: its decimal digits.
RECURSIVE Decimal(_)
Decimal(n) ==
  LET digit == <<"0", "1", "2", "3", "4", "5", "6", "7", "8", "9">>[(n % 10) + 1]
  IN IF n < 10 THEN <<digit>> ELSE Decimal(n \div 10) \o <<digit>>

\* The default '' of a destructured parameter (lines 244-245).
OrEmpty(x) == IF x = Undefined THEN <<>> ELSE x

\* Mutants of SigningPayload: the verb as given; the sub-account left out.
SigningPayloadVerbAsGiven(params) ==
  Decimal(params.timestamp) \o params.verb \o params.path
    \o OrEmpty(params.body) \o OrEmpty(params.subaccountId)

SigningPayloadWithoutSubaccount(params) ==
  Decimal(params.timestamp) \o toUpperCase(params.verb) \o params.path
    \o OrEmpty(params.body)

\* The payload, line 249.
SigningPayload(params) ==
  Decimal(params.timestamp) \o toUpperCase(params.verb) \o params.path
    \o OrEmpty(params.body) \o OrEmpty(params.subaccountId)

\* createHmac('sha512', key).update(payload).digest('hex'), lines 252-256:
\* the digest is taken to be free of collisions, so it is given by the key
\* and the payload it was computed from.
HmacSha512Hex(key, payload) == [key |-> key, msg |-> payload]

signRequest(params) == HmacSha512Hex(params.apiSecret, SigningPayload(params))

\* Nothing signed yet.
NoRequest ==
  [apiSecret |-> <<>>, timestamp |-> 0, verb |-> <<>>, path |-> <<>>,
   body |-> Undefined, subaccountId |-> Undefined]

NoSignature == [key |-> <<>>, msg |-> <<>>]

NoCall == [params |-> NoRequest, signature |-> NoSignature]

\* ---------------------------------------------------------- credentials
\* RequestSigner.validateCredentials, src/src/types/index.ts 275-302.  It
\* reads of a value its type, its length and which characters occur in it,
\* and a value is given here by these three.
Str(len, chars) == [type |-> "string", len |-> len, chars |-> chars]

UndefinedValue == [type |-> "undefined", len |-> 0, chars |-> {}]

\* A value that is not a string and not falsy, such as the number 5.
NumberValue == [type |-> "number", len |-> 0, chars |-> {}]

\* The strings tried as credentials: '', and strings of 63, 64 and 65
\* characters that are all 'a', or 'a' and 'F', or 'a' and 'g'.
CredentialLengths == {KeyLength - 1, KeyLength, KeyLength + 1}

CredentialStrings ==
  {Str(0, {})} \cup
  {Str(n, cs) : n \in CredentialLengths, cs \in {{"a"}, {"a", "F"}, {"a", "g"}}}

CredentialValues == CredentialStrings \cup {UndefinedValue, NumberValue}

\* !v of JavaScript.
Falsy(v) == v.type = "undefined" \/ (v.type = "string" /\ v.len = 0)

\* /^[a-f0-9]+$/i .test(v), line 294: one character or more, each of them
\* a digit or a letter a-f in either case.
HexDigits ==
  {"0", "1", "2", "3", "4", "5", "6", "7", "8", "9",
   "a", "b", "c", "d", "e", "f", "A", "B", "C", "D", "E", "F"}

hexRegexTest(v) == v.len >= 1 /\ v.chars \subseteq HexDigits

\* Mutant of validateCredentials: the secret's characters are not tested.
validateCredentialsKeyHexOnly(apiKey, apiSecret) ==
  IF Falsy(apiKey) \/ apiKey.type # "string"
  THEN "Invalid API key: must be a non-empty string"
  ELSE IF Falsy(apiSecret) \/ apiSecret.type # "string"
  THEN "Invalid API secret: must be a non-empty string"
  ELSE IF apiKey.len # KeyLength
  THEN "Invalid API key: must be 64 characters long"
  ELSE IF apiSecret.len # KeyLength
  THEN "Invalid API secret: must be 64 characters long"
  ELSE IF ~hexRegexTest(apiKey)
  THEN "Invalid API key: must be hexadecimal"
  ELSE "none"

\* The message of the Error it throws, or "none" when it returns.
validateCredentials(apiKey, apiSecret) ==
  IF Falsy(apiKey) \/ apiKey.type # "string"
  THEN "Invalid API key: must be a non-empty string"
  ELSE IF Falsy(apiSecret) \/ apiSecret.type # "string"
  THEN "Invalid API secret: must be a non-empty string"
  ELSE IF apiKey.len # KeyLength
  THEN "Invalid API key: must be 64 characters long"
  ELSE IF apiSecret.len # KeyLength
  THEN "Invalid API secret: must be 64 characters long"
  ELSE IF ~hexRegexTest(apiKey)
  THEN "Invalid API key: must be hexadecimal"
  ELSE IF ~hexRegexTest(apiSecret)
  THEN "Invalid API secret: must be hexadecimal"
  ELSE "none"

\* No client, no session, nothing on the wire, nothing called.
NoClient == [built |-> FALSE]

NoSession == [built |-> FALSE]

NoWire == [via |-> "none"]

NoOutcome == [op |-> "none"]

\* ------------------------------------------------------------ ValrClient
\* src/src/index.ts holds the class twice (120-295 and 360-513); the two
\* differ in the request interceptor, and which of them a build contains is
\* not fixed by the sources, so a client is of either definition.
Definitions == {"first", "second"}

\* The credentials tried in a config: left out, '', or a string of 63 or 64
\* characters.
ConfigCredentials ==
  {v \in CredentialValues : v.type # "number" /\ v.len <= KeyLength}

\* The sub-account ids tried: left out, '', and '1'.
SubaccountIds == {Undefined, <<>>, <<"1">>}

ClientConfigs ==
  [apiKey : ConfigCredentials, apiSecret : ConfigCredentials,
   subaccountId : SubaccountIds]

NoError == [class |-> "none", message |-> "none"]

\* What the constructor throws (lines 190-198), or NoError.
constructorError(config) ==
  LET apiKey == config.apiKey
      apiSecret == config.apiSecret
  IN IF (~Falsy(apiKey) /\ Falsy(apiSecret)) \/ (Falsy(apiKey) /\ ~Falsy(apiSecret))
     THEN [class |-> "ValrConfigurationError",
           message |-> "Both apiKey and apiSecret must be provided together"]
     ELSE IF ~Falsy(apiKey) /\ ~Falsy(apiSecret)
               /\ validateCredentials(apiKey, apiSecret) # "none"
     THEN [class |-> "Error", message |-> validateCredentials(apiKey, apiSecret)]
     ELSE NoError

\* The object the constructor builds when it does not throw (lines 200-275):
\* the three fields, the HttpClient with the request interceptor, and the
\* API groups.
ValrClient(config, definition) ==
  [built |-> TRUE, definition |-> definition,
   apiKey |-> config.apiKey, apiSecret |-> config.apiSecret,
   subaccountId |-> config.subaccountId,
   interceptors |-> 1, groups |-> TRUE]

\* Mutant of setSubaccountId: an id that is left out does not clear the field.
setSubaccountIdUnlessUndefined(c, subaccountId) ==
  IF subaccountId = Undefined THEN c ELSE [c EXCEPT !.subaccountId = subaccountId]

setSubaccountId(c, subaccountId) == [c EXCEPT !.subaccountId = subaccountId]

getSubaccountId(c) == c.subaccountId

\* ------------------------------------------------- the request interceptor
\* The request config an API method hands to axios: method, url, params
\* and data.  params is left out or an object with some of the keys 'a' and
\* 'b', each with the value '1' or null; data is left out or an object.
Null == <<"null">>

KeysAscending == <<"a", "b">>

\* A params object: the value at each key, Undefined where it has none.
ParamsObject(a, b) ==
  [given |-> TRUE, at |-> [k \in {"a", "b"} |-> IF k = "a" THEN a ELSE b]]

\* No params on the request config.
NoParams == [given |-> FALSE, at |-> [k \in {"a", "b"} |-> Undefined]]

\* A value is a caller's string, which may hold any character.
ParamObjects ==
  { ParamsObject(Undefined, Undefined), ParamsObject(<<"1">>, Undefined),
    ParamsObject(Null, <<"1">>), ParamsObject(<<"1">>, <<"1">>),
    ParamsObject(<<"?">>, Undefined) }

RequestConfigs ==
  [method : {Undefined, <<"p", "u", "t">>},
   url : {<<>>, <<"/", "x">>},
   params : ParamObjects \cup {NoParams},
   data : {Undefined, <<"object">>}]

\* JSON.stringify of the data object.
JSONstringify(data) == <<"{", "}">>

RECURSIVE join(_, _)
join(parts, separator) ==
  IF parts = <<>> THEN <<>>
  ELSE IF Len(parts) = 1 THEN parts[1]
  ELSE parts[1] \o separator \o join(Tail(parts), separator)

\* Lines 223-230: the keys in ascending order, those with a value that is
\* null or undefined left out, each as key=value.
queryParts(params) ==
  LET keys == SelectSeq(KeysAscending,
                        LAMBDA k : params.at[k] \notin {Undefined, Null})
  IN [i \in 1..Len(keys) |-> <<keys[i], "=">> \o params.at[keys[i]]]

\* The headers the interceptor and connect() set.
Header(value) == [present |-> TRUE, value |-> value]

NoHeader(value) == [present |-> FALSE, value |-> value]

NoAuthHeaders ==
  ("X-VALR-API-KEY" :> NoHeader(UndefinedValue))
    @@ ("X-VALR-SIGNATURE" :> NoHeader(NoSignature))
    @@ ("X-VALR-TIMESTAMP" :> NoHeader(<<>>))
    @@ ("X-VALR-SUB-ACCOUNT-ID" :> NoHeader(<<>>))

AuthHeaders(apiKey, sig, timestamp, subaccountId) ==
  ("X-VALR-API-KEY" :> Header(apiKey))
    @@ ("X-VALR-SIGNATURE" :> Header(sig))
    @@ ("X-VALR-TIMESTAMP" :> Header(Decimal(timestamp)))
    @@ ("X-VALR-SUB-ACCOUNT-ID" :>
          IF subaccountId \in {Undefined, <<>>} THEN NoHeader(<<>>)
          ELSE Header(subaccountId))

\* The request as the interceptor returns it to axios (lines 211-262 of the
\* first definition, 451-480 of the second), with the params object it
\* handed to signRequest: signedAt is the timestamp it signs and stampedAt
\* the one it writes into the header.
intercepted(c, config, signedAt, stampedAt) ==
  IF ~Falsy(c.apiKey) /\ ~Falsy(c.apiSecret)
  THEN
    LET method == IF config.method \in {Undefined, <<>>}
                  THEN <<"G", "E", "T">> ELSE toUpperCase(config.method)
        body == IF config.data = Undefined THEN <<>> ELSE JSONstringify(config.data)
        rewrites == c.definition = "first" /\ config.params.given
        parts == IF rewrites THEN queryParts(config.params) ELSE <<>>
        url == IF parts # <<>>
               THEN config.url \o <<"?">> \o join(parts, <<"&">>)
               ELSE config.url
        params == [apiSecret |-> c.apiSecret, timestamp |-> signedAt,
                   verb |-> method, path |-> url, body |-> body,
                   subaccountId |-> c.subaccountId]
    IN [via |-> "http", method |-> config.method, url |-> url,
        params |-> IF rewrites THEN NoParams ELSE config.params,
        data |-> config.data,
        headers |-> AuthHeaders(c.apiKey, signRequest(params), stampedAt,
                                c.subaccountId),
        signed |-> params]
  ELSE [via |-> "http", method |-> config.method, url |-> config.url,
        params |-> config.params, data |-> config.data,
        headers |-> NoAuthHeaders, signed |-> NoRequest]

\* Mutant of interceptor: the clock is read once for the signature and
\* again, a millisecond later, for the header.
interceptorReadsClockTwice(c, config, timestamp) ==
  intercepted(c, config, timestamp, timestamp + 1)

\* getTimestamp() is called once (line 214); its value is signed (243) and
\* written into the header (253).
interceptor(c, config, timestamp) == intercepted(c, config, timestamp, timestamp)

\* ------------------------------------------- the handshake of a session
\* new AccountWebSocket(config) throws unless apiKey and apiSecret are both
\* truthy (AccountWebSocket.ts 63-68); new TradeWebSocket(config) does not
\* (part_014 58-60).
\* Mutant of sessionError: the account session only asks for the key.
sessionErrorKeyOnly(kind, config) ==
  IF kind = "account" /\ Falsy(config.apiKey)
  THEN [class |-> "Error",
        message |-> "API key and secret are required for Account WebSocket"]
  ELSE NoError

sessionError(kind, config) ==
  IF kind = "account" /\ (Falsy(config.apiKey) \/ Falsy(config.apiSecret))
  THEN [class |-> "Error",
        message |-> "API key and secret are required for Account WebSocket"]
  ELSE NoError

\* this.config and this.path as the base constructor sets them
\* (ValrWebSocketClient.ts 55-68): a credential or sub-account id that is
\* falsy becomes ''.
Session(kind, config) ==
  [built |-> TRUE, kind |-> kind,
   apiKey |-> IF Falsy(config.apiKey) THEN Str(0, {}) ELSE config.apiKey,
   apiSecret |-> IF Falsy(config.apiSecret) THEN Str(0, {}) ELSE config.apiSecret,
   subaccountId |-> IF config.subaccountId = Undefined THEN <<>>
                    ELSE config.subaccountId,
   path |-> IF kind = "account" THEN <<"/ws/account">> ELSE <<"/ws/trade">>]

\* Mutant of handshake: the sub-account id goes into the header and not into
\* the signature.
handshakeSignsWithoutSubaccount(s, timestamp) ==
  IF ~Falsy(s.apiKey) /\ ~Falsy(s.apiSecret)
  THEN
    LET params == [apiSecret |-> s.apiSecret, timestamp |-> timestamp,
                   verb |-> <<"G", "E", "T">>, path |-> s.path, body |-> <<>>,
                   subaccountId |-> <<>>]
    IN [via |-> "ws", method |-> Undefined, url |-> s.path, params |-> NoParams,
        data |-> Undefined,
        headers |-> AuthHeaders(s.apiKey, signRequest(params), timestamp,
                                s.subaccountId),
        signed |-> params]
  ELSE [via |-> "ws", method |-> Undefined, url |-> s.path, params |-> NoParams,
        data |-> Undefined, headers |-> NoAuthHeaders, signed |-> NoRequest]

\* What connect() hands to new WebSocket (lines 82-106): the url and the
\* options, with the params object it handed to signRequest.
handshake(s, timestamp) ==
  IF ~Falsy(s.apiKey) /\ ~Falsy(s.apiSecret)
  THEN
    LET params == [apiSecret |-> s.apiSecret, timestamp |-> timestamp,
                   verb |-> <<"G", "E", "T">>, path |-> s.path, body |-> <<>>,
                   subaccountId |-> s.subaccountId]
    IN [via |-> "ws", method |-> Undefined, url |-> s.path, params |-> NoParams,
        data |-> Undefined,
        headers |-> AuthHeaders(s.apiKey, signRequest(params), timestamp,
                                s.subaccountId),
        signed |-> params]
  ELSE [via |-> "ws", method |-> Undefined, url |-> s.path, params |-> NoParams,
        data |-> Undefined, headers |-> NoAuthHeaders, signed |-> NoRequest]

\* ------------------------------------------------ the response interceptor
\* HttpClient's error handler, src/src/utils/http.ts 38-78.  A failed request
\* reaches it as an axios error: with a response (its status, its
\* x-valr-ratelimited header, its body with or without a message) or
\* without one.
Statuses == {400, 401, 403, 404, 429, 500}

Failures ==
  [response : BOOLEAN, status : Statuses,
   rateLimited : {"absent", "true", "false"}, data : {"message", "no message"}]

\* An optional field of an error object: <<v>> when set, <<>> when undefined.
Some(v) == <<v>>

None == <<>>

\* Mutant of errorInterceptor: 401 and 403 are tested before the rate limit.
errorInterceptorAuthFirst(error) ==
  IF error.response
  THEN IF error.status = 401 \/ error.status = 403
       THEN [class |-> "ValrAuthenticationError", statusCode |-> None, response |-> None]
       ELSE IF error.status = 429 \/ error.rateLimited = "true"
       THEN [class |-> "ValrRateLimitError", statusCode |-> None, response |-> None]
       ELSE IF error.status = 400
       THEN [class |-> "ValrValidationError", statusCode |-> None, response |-> None]
       ELSE [class |-> "ValrApiError", statusCode |-> Some(error.status),
             response |-> Some(error.data)]
  ELSE [class |-> "ValrApiError", statusCode |-> None, response |-> Some("error")]

\* The error it throws: its class, and the statusCode and response fields
\* that only ValrApiError has (src/unnamed/part_001 51-62).
errorInterceptor(error) ==
  IF error.response
  THEN IF error.status = 429 \/ error.rateLimited = "true"
       THEN [class |-> "ValrRateLimitError", statusCode |-> None, response |-> None]
       ELSE IF error.status = 401 \/ error.status = 403
       THEN [class |-> "ValrAuthenticationError", statusCode |-> None, response |-> None]
       ELSE IF error.status = 400
       THEN [class |-> "ValrValidationError", statusCode |-> None, response |-> None]
       ELSE [class |-> "ValrApiError", statusCode |-> Some(error.status),
             response |-> Some(error.data)]
  ELSE [class |-> "ValrApiError", statusCode |-> None, response |-> Some("error")]

NothingBuilt ==
  /\ client = NoClient
  /\ session = NoSession
  /\ wire = NoWire
  /\ outcome = NoOutcome

\* --------------------------------------------------------------- actions
Idle ==
  /\ ws = "undefined"
  /\ released = [rs \in Pending |-> 0]
  /\ reconnectAttempts = 0
  /\ reconnectTimer = "undefined"
  /\ orphanTimers = 0
  /\ isIntentionalClose = FALSE
  /\ isConnected = FALSE
  /\ isAuthenticated = FALSE
  /\ pingIntervals = 0
  /\ op = "new"
  /\ log = <<>>
  /\ thrown = "none"
  /\ hist = HistInit

\* The option that gives a session its limit, where it is left out or
\* positive.
GivenFor(c) ==
  IF c.maxReconnectAttempts = Infinity THEN NotConfigured
  ELSE Given(c.maxReconnectAttempts)

Init ==
  /\ cfg \in Configs
  /\ options = GivenFor(cfg)
  /\ Idle
  /\ signIn = NoRequest
  /\ signature = NoSignature
  /\ prevCall = NoCall
  /\ NothingBuilt

\* The application calls connect().
AppConnect == Commit(connect(World, TRUE), "connect")

\* The application calls disconnect().
AppDisconnect == Commit(disconnect(World), "disconnect")

\* The application calls subscribe() or unsubscribe(); what send() throws
\* goes to the caller.
AppSubscribe == Commit(subscribe(World), "subscribe")

AppUnsubscribe == Commit(unsubscribe(World), "unsubscribe")

\* A transport in state `from` moves to state `to`: the one this.ws refers
\* to (cur), or a released one.
Has(cur, from) == IF cur THEN ws = from ELSE released[from] > 0

Move(w, cur, from, to) ==
  IF cur THEN [w EXCEPT !.ws = to]
  ELSE [w EXCEPT !.released = Release([@ EXCEPT ![from] = @ - 1], to)]

\* A transport's 'open' event (lines 108-110).
TransportOpen(cur) ==
  /\ Has(cur, "CONNECTING")
  /\ \E h1, h2 \in Reactions :
       /\ ~Credentialed(cfg) => h2 = "none"
       /\ Commit(handleOpen(Move(World, cur, "CONNECTING", "OPEN"), cur, h1, h2),
                 "open")

\* A transport's 'message' event (lines 112-114).
TransportMessage(cur) ==
  /\ Has(cur, "OPEN")
  /\ \E data \in Payloads, h1, h2 \in ReactionsInTry, h3 \in Reactions :
       /\ data = "BAD_JSON" => h1 = "none"
       /\ (TypedEvent(cfg.kind, data) = "" \/ h1 = "throw") => h2 = "none"
       /\ (data \notin {"BAD_JSON", "NULL"} /\ "throw" \notin {h1, h2}) => h3 = "none"
       /\ Commit(handleMessage(World, data, h1, h2, h3), "message")

\* A transport's 'error' event (lines 116-118): a failed handshake, an
\* aborted handshake (close() while CONNECTING) or a protocol error.  The
\* library has left CONNECTING/OPEN when it emits it.
TransportError(cur, from) ==
  /\ Has(cur, from)
  /\ \E h \in Reactions :
       Commit(handleError(Move(World, cur, from, "CLOSING"), h), "error")

\* The peer starts the closing handshake of a transport: no event yet.
TransportClosing(cur) ==
  /\ Has(cur, "OPEN")
  /\ Commit(Move(World, cur, "OPEN", "CLOSING"), "closing")

\* A transport's 'close' event (lines 120-122): after a failed handshake it
\* follows the 'error' event; a connection that was open may also be lost
\* without one.
TransportClose(cur, from) ==
  /\ Has(cur, from)
  /\ \E code \in CloseCodes, h1, h2, h3 \in Reactions :
       Commit(handleClose(Move(World, cur, from, "CLOSED"), code, h1, h2, h3),
              "close")

\* The timeout this.reconnectTimer refers to fires.
TimerFire ==
  /\ reconnectTimer = "pending"
  /\ Commit(timerFire([World EXCEPT !.reconnectTimer = "fired"]), "timer")

\* A pending timeout the session no longer refers to fires.
OrphanTimerFire ==
  /\ orphanTimers > 0
  /\ Commit(timerFire([World EXCEPT !.orphanTimers = @ - 1]), "timer")

\* An interval of startPing ticks.
PingTick ==
  /\ pingIntervals > 0
  /\ Commit(pingTick(World), "ping")

Next ==
  \/ AppConnect
  \/ AppDisconnect
  \/ \E cur \in BOOLEAN : TransportOpen(cur)
  \/ \E cur \in BOOLEAN : TransportMessage(cur)
  \/ \E cur \in BOOLEAN, from \in Pending : TransportError(cur, from)
  \/ \E cur \in BOOLEAN : TransportClosing(cur)
  \/ \E cur \in BOOLEAN, from \in {"OPEN", "CLOSING"} : TransportClose(cur, from)
  \/ TimerFire
  \/ OrphanTimerFire
  \/ PingTick

Spec == Init /\ [][Next]_vars

\* The session as the callers of subscribe() and unsubscribe() meet it: the
\* transport in each of its states, with or without a reconnect under way.
\* Inbound messages and keep-alive ticks, which change no transport, are
\* left to Spec.
SendNext ==
  \/ AppConnect
  \/ AppDisconnect
  \/ AppSubscribe
  \/ AppUnsubscribe
  \/ \E cur \in BOOLEAN : TransportOpen(cur)
  \/ \E cur \in BOOLEAN, from \in Pending : TransportError(cur, from)
  \/ \E cur \in BOOLEAN : TransportClosing(cur)
  \/ \E cur \in BOOLEAN, from \in {"OPEN", "CLOSING"} : TransportClose(cur, from)
  \/ TimerFire

SendSpec == Init /\ [][SendNext]_vars

\* The session on a network that loses connections abruptly: a transport
\* closes without an 'error' event and without a closing handshake begun by
\* the peer.  Here a transport is CLOSING only because disconnect() closed
\* it, so every close event of a transport the session no longer refers to
\* was caused by disconnect().
AbruptNext ==
  \/ AppConnect
  \/ AppDisconnect
  \/ \E cur \in BOOLEAN : TransportOpen(cur)
  \/ \E cur \in BOOLEAN, from \in {"OPEN", "CLOSING"} : TransportClose(cur, from)
  \/ TimerFire
  \/ OrphanTimerFire

AbruptSpec == Init /\ [][AbruptNext]_vars

\* The same network, and a session with autoReconnect whose limit is given
\* as any of 0, 1, 2 or left out.
MaxAttemptsGiven == {NotConfigured} \cup {Given(n) : n \in MaxAttemptsOptions}

LimitInit ==
  /\ options \in MaxAttemptsGiven
  /\ cfg \in {c \in Configs :
               /\ c.autoReconnect
               /\ c.urlOk
               /\ c.maxReconnectAttempts = maxReconnectAttempts(options)}
  /\ Idle
  /\ signIn = NoRequest
  /\ signature = NoSignature
  /\ prevCall = NoCall
  /\ NothingBuilt

LimitSpec == LimitInit /\ [][AbruptNext]_vars

\* The market-data session constructed with both credentials, with one of
\* the two, or with none.
TradeConfigs ==
  { c \in [kind : {"trade"}, apiKey : BOOLEAN, apiSecret : BOOLEAN,
           autoReconnect : BOOLEAN,
           maxReconnectAttempts : {NormalizeMax(m) : m \in MaxAttemptsOptions},
           urlOk : BOOLEAN] :
      ~c.autoReconnect => c.maxReconnectAttempts = Infinity }

TradeInit ==
  /\ cfg \in TradeConfigs
  /\ options = GivenFor(cfg)
  /\ Idle
  /\ signIn = NoRequest
  /\ signature = NoSignature
  /\ prevCall = NoCall
  /\ NothingBuilt

TradeSpec == TradeInit /\ [][Next]_vars

\* The session left to reconnect by itself: autoReconnect, no limit, a URL
\* that parses, and an application that never calls disconnect(), its
\* handlers only listening.  It calls connect() to begin with, and again
\* while the transport is CONNECTING or OPEN, so that this.ws is the only
\* transport that can deliver an event and this.reconnectTimer the only
\* timer.
RecoverInit ==
  /\ cfg \in {c \in Configs :
               c.autoReconnect /\ c.urlOk /\ c.maxReconnectAttempts = Infinity}
  /\ options = GivenFor(cfg)
  /\ Idle
  /\ signIn = NoRequest
  /\ signature = NoSignature
  /\ prevCall = NoCall
  /\ NothingBuilt

\* The application's connect().
Start ==
  /\ ws = "undefined" \/ Live(World)
  /\ AppConnect

\* The transport's 'open' event.
Accepted ==
  /\ Has(TRUE, "CONNECTING")
  /\ Commit(handleOpen(Move(World, TRUE, "CONNECTING", "OPEN"), TRUE, "none", "none"),
            "open")

\* A handshake fails ('error'; 'close' follows).  The transport accepts a
\* connection in the end: it refuses no more than AttemptCap attempts in a
\* row.
Refused ==
  /\ reconnectAttempts < AttemptCap
  /\ Has(TRUE, "CONNECTING")
  /\ Commit(handleError(Move(World, TRUE, "CONNECTING", "CLOSING"), "none"), "error")

\* The transport's 'close' event: after a failed handshake, or a connection
\* that was open is lost.  A connection is lost only while the next open
\* can still be given its keep-alive interval.
Closed(from) ==
  /\ Has(TRUE, from)
  /\ (from = "OPEN" /\ Credentialed(cfg)) => pingIntervals < MaxPingTimers
  /\ \E code \in CloseCodes :
       Commit(handleClose(Move(World, TRUE, from, "CLOSED"), code,
                          "none", "none", "none"),
              "close")

\* An inbound message and a tick of the keep-alive, as in Spec.
Heard ==
  /\ Has(TRUE, "OPEN")
  /\ \E data \in Payloads :
       Commit(handleMessage(World, data, "none", "none", "none"), "message")

RecoverNext ==
  \/ Start
  \/ Accepted
  \/ Refused
  \/ \E from \in {"OPEN", "CLOSING"} : Closed(from)
  \/ Heard
  \/ PingTick
  \/ TimerFire

\* Timers fire, a handshake under way ends, and a failed transport
\* delivers its close event.
RecoverSpec ==
  /\ RecoverInit
  /\ [][RecoverNext]_vars
  /\ WF_vars(TimerFire)
  /\ WF_vars(Accepted)
  /\ WF_vars(Closed("CLOSING"))

\* ------------------------------------------------ the signer and a caller
\* A caller holds a params object and signs it; it signs it again, or
\* changes one field and signs the result.
SignInit ==
  /\ cfg \in {c \in Configs : c.kind = "trade" /\ ~c.apiKey /\ ~c.autoReconnect /\ c.urlOk}
  /\ options = GivenFor(cfg)
  /\ Idle
  /\ signIn \in SignInputs
  /\ signature = signRequest(signIn)
  /\ prevCall = NoCall
  /\ NothingBuilt

Sign(params) ==
  /\ signIn' = params
  /\ signature' = signRequest(params)
  /\ prevCall' = [params |-> signIn, signature |-> signature]
  /\ UNCHANGED <<sessionVars, clientVars>>

SignAgain == Sign(signIn)

SetTimestamp == \E t \in Timestamps \ {signIn.timestamp} :
  Sign([signIn EXCEPT !.timestamp = t])

SetVerb == \E v \in Verbs \ {signIn.verb} :
  Sign([signIn EXCEPT !.verb = v])

SetPath == \E x \in Strings \ {signIn.path} :
  Sign([signIn EXCEPT !.path = x])

SetBody == \E x \in (Strings \cup {Undefined}) \ {signIn.body} :
  Sign([signIn EXCEPT !.body = x])

SetSubaccountId == \E x \in (Strings \cup {Undefined}) \ {signIn.subaccountId} :
  Sign([signIn EXCEPT !.subaccountId = x])

SignNext ==
  \/ SignAgain
  \/ SetTimestamp
  \/ SetVerb
  \/ SetPath
  \/ SetBody
  \/ SetSubaccountId

SignSpec == SignInit /\ [][SignNext]_vars

\* ------------------------------------- credentials, requests, handshakes
\* A program calls validateCredentials, or builds a ValrClient or a
\* WebSocket session and uses it.
AuthInit ==
  /\ cfg \in {c \in Configs : c.kind = "trade" /\ ~c.apiKey /\ ~c.autoReconnect /\ c.urlOk}
  /\ options = GivenFor(cfg)
  /\ Idle
  /\ signIn = NoRequest
  /\ signature = NoSignature
  /\ prevCall = NoCall
  /\ NothingBuilt

Validate == \E k \in CredentialValues, s \in CredentialValues :
  /\ client = NoClient /\ session = NoSession
  /\ outcome' = [op |-> "validateCredentials", apiKey |-> k, apiSecret |-> s,
                 error |-> validateCredentials(k, s)]
  /\ UNCHANGED <<client, session, wire, sessionVars, signVars>>

\* new ValrClient(config)
NewClient == \E config \in ClientConfigs, definition \in Definitions :
  /\ client = NoClient /\ session = NoSession
  /\ client' = IF constructorError(config) = NoError
               THEN ValrClient(config, definition) ELSE client
  /\ outcome' = [op |-> "new ValrClient", config |-> config,
                 error |-> constructorError(config)]
  /\ UNCHANGED <<session, wire, sessionVars, signVars>>

\* client.setSubaccountId(id)
ClientSetSubaccountId == \E id \in SubaccountIds :
  /\ client # NoClient
  /\ client' = setSubaccountId(client, id)
  /\ outcome' = [op |-> "setSubaccountId", arg |-> id]
  /\ UNCHANGED <<session, wire, sessionVars, signVars>>

\* client.getSubaccountId()
ClientGetSubaccountId ==
  /\ client # NoClient
  /\ outcome' = [op |-> "getSubaccountId", result |-> getSubaccountId(client)]
  /\ UNCHANGED <<client, session, wire, sessionVars, signVars>>

\* An API method issues a request: axios runs the interceptor, which reads
\* the clock, and the transport gets what it returns.
Request == \E config \in RequestConfigs, now \in Timestamps :
  /\ client # NoClient
  /\ wire' = interceptor(client, config, now)
  /\ outcome' = [op |-> "request", config |-> config]
  /\ UNCHANGED <<client, session, sessionVars, signVars>>

\* new AccountWebSocket(config), new TradeWebSocket(config)
NewSession == \E kind \in {"account", "trade"}, config \in ClientConfigs :
  /\ client = NoClient /\ session = NoSession
  /\ session' = IF sessionError(kind, config) = NoError
                THEN Session(kind, config) ELSE session
  /\ outcome' = [op |-> "new WebSocket session", kind |-> kind,
                 config |-> config, error |-> sessionError(kind, config)]
  /\ UNCHANGED <<client, wire, sessionVars, signVars>>

\* session.connect(), by the application or by the reconnect timer: the
\* handshake it builds.
Handshake == \E now \in Timestamps :
  /\ session # NoSession
  /\ wire' = handshake(session, now)
  /\ outcome' = [op |-> "connect"]
  /\ UNCHANGED <<client, session, sessionVars, signVars>>

\* The request on the wire fails: axios runs the error handler, and the API
\* method's caller gets what it throws.
Respond == \E error \in Failures :
  /\ wire.via = "http"
  /\ wire' = NoWire
  /\ outcome' = [op |-> "response", failure |-> error,
                 error |-> errorInterceptor(error)]
  /\ UNCHANGED <<client, session, sessionVars, signVars>>

AuthNext ==
  \/ Validate
  \/ NewClient
  \/ Respond
  \/ NewSession
  \/ Handshake
  \/ ClientSetSubaccountId
  \/ ClientGetSubaccountId
  \/ Request

AuthSpec == AuthInit /\ [][AuthNext]_vars

TypeOK ==
  /\ cfg \in Configs \cup TradeConfigs
  /\ options \in MaxAttemptsGiven
  /\ ws \in ReadyStates \cup {"undefined"}
  /\ released \in [Pending -> 0..MaxTransports]
  /\ reconnectAttempts \in 0..AttemptCap
  /\ reconnectTimer \in {"undefined", "pending", "fired"}
  /\ orphanTimers \in 0..MaxOrphanTimers
  /\ isIntentionalClose \in BOOLEAN
  /\ isConnected \in BOOLEAN
  /\ isAuthenticated \in BOOLEAN
  /\ pingIntervals \in 0..MaxPingTimers
  /\ thrown \in {"none", "NotConnected"}

\* ------------------------------------------------------------ properties
\* The entries of the last call's or callback's log that record ev.
Entries(ev) == {i \in DOMAIN log : log[i].ev = ev}

\* The transports of the session that are CONNECTING or OPEN.
LiveTransports ==
  (IF ws \in {"CONNECTING", "OPEN"} THEN 1 ELSE 0)
  + released["CONNECTING"] + released["OPEN"]

\* C1: in every reachable state at most one transport the session created
\* is CONNECTING or OPEN.
C1_AtMostOneLiveTransport == LiveTransports <= 1

\* A reconnect produced a live transport while an earlier one, closed by
\* disconnect(), has not yet delivered its close event.
C1_Witness ==
  /\ ws \in {"CONNECTING", "OPEN"}
  /\ released["CLOSING"] > 0
  /\ op = "timer"

\* C2: connect() called while this.ws is CONNECTING or OPEN changes no
\* field, creates no transport and emits nothing; the same holds for the
\* connect() a reconnect timer runs, whose callback then only records that
\* the timer fired.
C2_ConnectWhileLiveIsNoOp ==
  [][ /\ (op' = "connect" /\ ws \in {"CONNECTING", "OPEN"}) =>
           /\ log' = <<>>
           /\ thrown' = "none"
           /\ <<ws, released, isIntentionalClose, isConnected, isAuthenticated,
                reconnectAttempts, reconnectTimer, orphanTimers, pingIntervals>>'
              = <<ws, released, isIntentionalClose, isConnected, isAuthenticated,
                  reconnectAttempts, reconnectTimer, orphanTimers, pingIntervals>>
      /\ (op' = "timer" /\ ws \in {"CONNECTING", "OPEN"}) =>
           /\ Len(log') = 1
           /\ <<ws, released, isIntentionalClose, isConnected, isAuthenticated,
                reconnectAttempts, pingIntervals>>'
              = <<ws, released, isIntentionalClose, isConnected, isAuthenticated,
                  reconnectAttempts, pingIntervals>>
    ]_vars

\* connect() ran on a session whose transport was live: it may run, the URL
\* is good, and yet nothing was created.
C2_Witness ==
  /\ op = "connect"
  /\ cfg.urlOk
  /\ log = <<>>
  /\ ws = "CONNECTING"

\* C3: isAuthenticated implies isConnected between callbacks and whenever a
\* handler runs, and every handler the close callback calls sees both FALSE.
C3_AuthenticatedImpliesConnected ==
  /\ isAuthenticated => isConnected
  /\ \A i \in DOMAIN log : log[i].auth => log[i].conn
  /\ op = "close" => \A i \in DOMAIN log : ~log[i].conn /\ ~log[i].auth

\* The close callback of a session that had authenticated emitted its
\* events.
C3_Witness ==
  /\ op = "close"
  /\ Entries("close") # {}
  /\ Entries("disconnected") # {}
  /\ pingIntervals > 0
  /\ ~isConnected

\* C4: in the open callback of a credentialed session 'connected' comes
\* before 'authenticated', and 'authenticated' before the automatic
\* SUBSCRIBE; and every PING goes to a transport for which 'authenticated'
\* has been emitted.
C4_AuthOrdering ==
  /\ (op = "open" /\ Credentialed(cfg)) =>
       \E i, j \in DOMAIN log :
         /\ i < j
         /\ Entries("connected") = {i}
         /\ Entries("authenticated") = {j}
         /\ \A k \in Entries("SUBSCRIBE") \cup Entries("PING") : j < k
  /\ (op = "open" /\ ~Credentialed(cfg)) =>
       Entries("authenticated") \cup Entries("SUBSCRIBE") = {}
  /\ \A k \in Entries("SUBSCRIBE") \cup Entries("PING") : log[k].arg = 1

\* An account session opened and sent its automatic SUBSCRIBE.
C4_Witness ==
  /\ op = "open"
  /\ cfg.kind = "account"
  /\ Entries("SUBSCRIBE") # {}
  /\ Entries("authenticated") # {}

\* A keep-alive PING was sent.
C4_PingSent == op = "ping" /\ Entries("PING") # {}

\* An outage the application only watches: autoReconnect with a finite
\* limit, the application's last action a connect() on a session at rest,
\* its handlers passive since.
CalmOutage ==
  /\ hist.calm
  /\ cfg.autoReconnect
  /\ cfg.maxReconnectAttempts # Infinity

\* C5: in such an outage, with the limit N, the reconnect timer makes at
\* most N attempts since the last open; an unintentional close after fewer
\* than N attempts emits one 'reconnecting' carrying the number of the
\* attempt it schedules (1, 2, ..., N) and leaves a timer pending, the timer
\* then makes that attempt; the close after the N-th attempt emits one 'Max
\* reconnect attempts reached' error and no 'reconnecting', and from then on
\* no timer is pending and no transport is left that could lead to an
\* attempt.
C5_ReconnectBudget ==
  CalmOutage =>
    /\ hist.tries <= cfg.maxReconnectAttempts
    /\ orphanTimers = 0
    /\ reconnectAttempts
         = hist.tries + (IF reconnectTimer = "pending" THEN 1 ELSE 0)
    /\ op = "close" =>
         \/ /\ hist.tries < cfg.maxReconnectAttempts
            /\ Entries("error:MaxReconnect") = {}
            /\ \E i \in DOMAIN log :
                 /\ Entries("reconnecting") = {i}
                 /\ log[i].arg = hist.tries + 1
            /\ reconnectTimer = "pending"
         \/ /\ hist.tries = cfg.maxReconnectAttempts
            /\ Entries("reconnecting") = {}
            /\ Cardinality(Entries("error:MaxReconnect")) = 1
            /\ hist.exhausted
    /\ op = "timer" =>
         /\ Cardinality(Entries("create")) = 1
         /\ ws = "CONNECTING"
         /\ hist.tries = reconnectAttempts
    /\ hist.exhausted =>
         /\ hist.tries = cfg.maxReconnectAttempts
         /\ reconnectTimer # "pending"
         /\ Count(World) = 0

\* C5, its last part as the claim states it, for every unintentional close:
\* once 'Max reconnect attempts reached' has been emitted, and until the
\* application acts, no reconnect timer is pending and the session creates
\* no transport.
C5_TerminalErrorIsFinal ==
  (hist.exhausted /\ cfg.maxReconnectAttempts # Infinity) =>
    /\ reconnectTimer # "pending"
    /\ orphanTimers = 0
    /\ Entries("create") = {}

\* The budget of two attempts is used up: the terminal error was emitted
\* by the close after the second attempt.
C5_Witness ==
  /\ CalmOutage
  /\ cfg.maxReconnectAttempts = 2
  /\ hist.tries = 2
  /\ hist.exhausted
  /\ Entries("error:MaxReconnect") # {}

\* C6: after a disconnect() that found the transport CONNECTING or OPEN,
\* no 'reconnecting' event is emitted until the application calls connect().
C6_NoReconnectingAfterDisconnect ==
  \A i \in Entries("reconnecting") : ~log[i].shutdownLive

\* C7: after disconnect(), until the application calls connect(), no
\* reconnect timer fires into connect() and no transport is created.
C7_NoConnectAfterDisconnect ==
  \A i \in Entries("timer") \cup Entries("create") : ~log[i].shutdown

\* C8: no exception leaves a callback of the session; stated for the
\* callback of the keep-alive interval, which calls no handler of the
\* application.
C8_PingCallbackNeverThrows == op = "ping" => thrown = "none"

\* C9: a callback in which a handler called disconnect() returns normally
\* and leaves the session without a transport handle.
C9_DisconnectInHandlerIsSafe ==
  (op \in CallbackOps /\ \E i \in DOMAIN log : log[i].by = "disconnect") =>
    /\ thrown = "none"
    /\ ws = "undefined"

\* The session's fields of a world.
Fields(w) ==
  <<w.ws, w.released, w.reconnectAttempts, w.reconnectTimer, w.orphanTimers,
    w.isIntentionalClose, w.isConnected, w.isAuthenticated, w.pingIntervals>>

\* C10: from every reachable state, disconnect() leaves isIntentionalClose
\* set, no timer handle and no transport handle; a second disconnect()
\* changes no field, emits nothing, closes nothing and does not throw; and
\* no close() of a transport is the second the session makes on it.
C10_DisconnectIdempotent ==
  LET once == disconnect(World)
      twice == disconnect([once EXCEPT !.log = <<>>])
  IN /\ once.isIntentionalClose
     /\ once.reconnectTimer = "undefined"
     /\ once.ws = "undefined"
     /\ once.thrown = "none"
     /\ Fields(twice) = Fields(once)
     /\ twice.log = <<>>
     /\ twice.thrown = "none"
     /\ \A i \in DOMAIN once.log :
          once.log[i].ev = "ws.close" /\ once.log[i].arg = 1
     /\ \A i \in Entries("ws.close") : log[i].arg = 1
     /\ hist.twice => log = <<>> /\ thrown = "none" /\ ws = "undefined"

\* disconnect() was called twice in a row, the first call having closed a
\* transport whose close event is still to come.
C10_Witness ==
  /\ hist.twice
  /\ op = "disconnect"
  /\ released["CLOSING"] > 0

\* The fields of the session, as a tuple.
SessionFields ==
  <<ws, released, reconnectAttempts, reconnectTimer, orphanTimers,
    isIntentionalClose, isConnected, isAuthenticated, pingIntervals>>

\* The typed events of the two session kinds.
TypedEvents ==
  {"order:processed", "order:statusUpdate", "balance:update", "trade:new",
   "orderbook:update", "market:summary"}

\* The handlers the last call or callback ran only listened.
Passive == \A i \in DOMAIN log : log[i].by \in {"none", "send", "call", "app", "timer"}

\* The message callback ran on a payload that JSON.parse rejects: its log
\* starts with the parse error, where every parsed payload starts with
\* 'message'.
Unparseable ==
  /\ op = "message"
  /\ log # <<>>
  /\ log[1].ev = "error:Parse"

\* C11: a payload that is not JSON makes the message callback emit one
\* 'error' and no 'message' or typed event; it closes no transport, sets no
\* timer and changes none of isConnected, isAuthenticated, reconnectAttempts
\* (nor any other field) unless the error handler itself calls disconnect().
C11_UnparseableOnlyEmitsError ==
  [][ Unparseable' =>
        /\ Cardinality(Entries("error:Parse")') = 1
        /\ \A i \in DOMAIN log' :
             log'[i].ev \notin TypedEvents \cup {"message", "reconnecting"}
        /\ thrown' = "none"
        /\ <<isConnected, isAuthenticated, reconnectAttempts, orphanTimers,
             pingIntervals>>'
           = <<isConnected, isAuthenticated, reconnectAttempts, orphanTimers,
               pingIntervals>>
        /\ reconnectTimer' # "pending" \/ reconnectTimer = "pending"
        /\ Passive' => /\ Len(log') = 1
                       /\ SessionFields' = SessionFields
    ]_vars

\* An open session received a payload that is not JSON, its handlers only
\* listening.
C11_Witness ==
  /\ Unparseable
  /\ Passive
  /\ isConnected
  /\ ws = "OPEN"

\* C12: at most one keep-alive interval is active at any time, and none is
\* active once the close callback or disconnect() has run.
C12_OnePingTimer ==
  /\ pingIntervals <= 1
  /\ op \in {"close", "disconnect"} => pingIntervals = 0

\* C13: a tick of the keep-alive writes one PING when isConnected and
\* isAuthenticated are set and this.ws is OPEN, and writes nothing in every
\* other state; it changes no field; and every PING written anywhere was
\* written with both flags set.
C13_PingOnlyWhenAuthenticatedAndOpen ==
  [][ /\ op' = "ping" =>
           /\ SessionFields' = SessionFields
           /\ IF isConnected /\ isAuthenticated /\ ws = "OPEN"
              THEN /\ Len(log') = 1
                   /\ log'[1].ev = "PING"
                   /\ thrown' = "none"
              ELSE log' = <<>>
      /\ \A i \in Entries("PING")' :
           /\ op' = "ping"
           /\ log'[i].conn
           /\ log'[i].auth
    ]_vars

\* A tick wrote a PING.
C13_Witness ==
  /\ op = "ping"
  /\ Entries("PING") # {}
  /\ ws = "OPEN"
  /\ isConnected /\ isAuthenticated

\* A tick found the transport OPEN and the flags cleared by the close event
\* of an earlier transport, and wrote nothing.
C13_SilentTick ==
  /\ op = "ping"
  /\ log = <<>>
  /\ ws = "OPEN"
  /\ ~isConnected

\* C14: a payload that parses, delivered to handlers that only listen,
\* gives one 'message' event first, then one typed event or none, and never
\* an 'error' event.
C14_ParsedMessageDispatch ==
  (op = "message" /\ ~Unparseable /\ Passive) =>
    /\ log # <<>>
    /\ Entries("message") = {1}
    /\ Cardinality({i \in DOMAIN log : log[i].ev \in TypedEvents}) <= 1
    /\ Entries("error:Parse") = {}

\* C15: subscribe() and unsubscribe(), which only call send(), fail with the
\* not-connected error exactly when this.ws is undefined or not OPEN, and
\* then write nothing; otherwise they write one frame and return; in both
\* cases no field changes.
C15_SendNeedsOpenTransport ==
  [][ op' \in {"subscribe", "unsubscribe"} =>
        /\ SessionFields' = SessionFields
        /\ IF ws = "OPEN"
           THEN /\ thrown' = "none"
                /\ Len(log') = 1
                /\ log'[1].ev = (IF op' = "subscribe" THEN "SUBSCRIBE"
                                                      ELSE "UNSUBSCRIBE")
                /\ log'[1].by = "send"
           ELSE /\ thrown' = "NotConnected"
                /\ log' = <<>>
    ]_vars

\* subscribe() failed on a session whose transport is still CONNECTING.
C15_Witness ==
  /\ op = "subscribe"
  /\ ws = "CONNECTING"
  /\ thrown = "NotConnected"

\* unsubscribe() wrote its frame.
C15_Sent ==
  /\ op = "unsubscribe"
  /\ Entries("UNSUBSCRIBE") # {}

\* C16: the close callback emits 'close' once, carrying a close code, then
\* 'disconnected' once, both with isConnected and isAuthenticated already
\* cleared, and only then 'reconnecting' or the terminal error; no other
\* call or callback emits 'close' or 'disconnected'.
C16_CloseThenDisconnected ==
  /\ op = "close" =>
       \E i, j \in DOMAIN log :
         /\ i = 1
         /\ i < j
         /\ Entries("close") = {i}
         /\ Entries("disconnected") = {j}
         /\ log[i].arg \in CloseCodes
         /\ ~log[i].conn /\ ~log[i].auth
         /\ ~log[j].conn /\ ~log[j].auth
         /\ \A k \in Entries("reconnecting") \cup Entries("error:MaxReconnect") :
              j < k
         /\ Cardinality(Entries("reconnecting") \cup Entries("error:MaxReconnect"))
              <= 1
  /\ op # "close" => Entries("close") \cup Entries("disconnected") = {}

\* An unintentional close emitted its two events and then 'reconnecting'.
C16_Witness ==
  /\ op = "close"
  /\ Entries("disconnected") # {}
  /\ Entries("reconnecting") # {}

\* Where connections are lost abruptly, this.ws is never CLOSING, so that
\* the session lets go of a transport that can still deliver an event only
\* in disconnect(), after closing it.
C17_OnlyDisconnectReleases == ws # "CLOSING"

\* C17: the close callback, its handlers only listening, schedules a
\* reconnect or emits the terminal error exactly when autoReconnect is on
\* and the close was not caused by disconnect(): it does so for the close
\* of the transport this.ws refers to (the bag of released transports is
\* then unchanged), and does not for a transport disconnect() closed.
C17_ReconnectIffUnintentional ==
  [][ (op' = "close" /\ Passive') =>
        LET reacted == Entries("reconnecting")' \cup Entries("error:MaxReconnect")' # {}
        IN /\ released' = released => (reacted <=> cfg.autoReconnect)
           /\ released' # released => ~reacted
    ]_vars

\* C17, second part: without autoReconnect no 'reconnecting' event is
\* emitted and no reconnect timer is created.
C17_NoReconnectWithoutAutoReconnect ==
  ~cfg.autoReconnect =>
    /\ Entries("reconnecting") \cup Entries("error:MaxReconnect") = {}
    /\ reconnectTimer = "undefined"
    /\ orphanTimers = 0
    /\ reconnectAttempts = 0

\* C18: the error callback emits one 'error' event and nothing else; it
\* leaves isConnected, isAuthenticated, reconnectAttempts and the keep-alive
\* alone and sets no timer; and unless the handler of that event calls
\* disconnect(), isIntentionalClose, the reconnect timer, and which
\* transports the session refers to and has let go of are unchanged too.
C18_ErrorOnlyEmits ==
  [][ op' = "error" =>
        /\ Entries("error:Transport")' = {1}
        /\ thrown' = "none"
        /\ \A i \in DOMAIN log' :
             log'[i].ev \in {"error:Transport", "ws.close"}
        /\ <<isConnected, isAuthenticated, reconnectAttempts, orphanTimers,
             pingIntervals>>'
           = <<isConnected, isAuthenticated, reconnectAttempts, orphanTimers,
               pingIntervals>>
        /\ reconnectTimer' = "pending" => reconnectTimer = "pending"
        /\ Passive' =>
             /\ Len(log') = 1
             /\ isIntentionalClose' = isIntentionalClose
             /\ reconnectTimer' = reconnectTimer
             /\ (ws' = "undefined") <=> (ws = "undefined")
             /\ ws' \in {ws, "CLOSING"}
             /\ released'["CONNECTING"] + released'["OPEN"] + released'["CLOSING"]
                = released["CONNECTING"] + released["OPEN"] + released["CLOSING"]
    ]_vars

\* The handshake of the current transport failed on an authenticated
\* session whose earlier transport has not yet delivered its close; the
\* handler only listened.
C18_Witness ==
  /\ op = "error"
  /\ Passive
  /\ ws = "CLOSING"
  /\ isConnected /\ isAuthenticated

\* ---------------------------------------------------------------- C19
\* Two verbs that differ at most in the case of their letters.
SameButCase(u, v) ==
  /\ Len(u) = Len(v)
  /\ \A i \in DOMAIN u :
       u[i] = v[i] \/ <<u[i], v[i]>> \in CasePairs \/ <<v[i], u[i]>> \in CasePairs

\* An omitted value and '' stand for each other.
OmittedOrSame(x) == IF x \in {Undefined, <<>>} THEN {Undefined, <<>>} ELSE {x}

\* The params that sign like p according to C19: the same fields, a verb
\* that differs at most in letter case, body and subaccountId omitted or ''.
SignsLike(p) ==
  { [p EXCEPT !.verb = v, !.body = b, !.subaccountId = s] :
      v \in {u \in Verbs : SameButCase(u, p.verb)},
      b \in OmittedOrSame(p.body), s \in OmittedOrSame(p.subaccountId) }

\* C19: signRequest depends on its params only: every params object that
\* equals the one just signed up to the letter case of verb and up to an
\* omitted body or subaccountId standing for '' gets the signature just
\* returned, and signing the same params again returns the same signature.
C19_SignatureDependsOnInputOnly ==
  /\ [](\A q \in SignsLike(signIn) : signRequest(q) = signature)
  /\ [][signIn' = signIn => signature' = signature]_vars
  /\ [](signIn = prevCall.params => signature = prevCall.signature)

\* 'get' was signed with body and subaccountId omitted, for the second time
\* in a row, and the payload carries 'GET'.
C19_Witness ==
  /\ signIn.verb = <<"g", "e", "t">>
  /\ signIn.body = Undefined
  /\ signIn.subaccountId = Undefined
  /\ prevCall.params = signIn
  /\ signature = HmacSha512Hex(signIn.apiSecret, <<"1", "G", "E", "T">> \o signIn.path)

\* ---------------------------------------------------------------- C20
\* The params with an omitted body or subaccountId read as the empty string
\* they default to.
Effective(params) ==
  [params EXCEPT !.body = OrEmpty(@), !.subaccountId = OrEmpty(@)]

\* The fields among timestamp, path, body and subaccountId whose value, an
\* omitted one read as '', differs between two params objects.
FieldsChanged(p, q) ==
  {f \in {"timestamp", "path", "body", "subaccountId"} : Effective(p)[f] # Effective(q)[f]}

\* Two params objects that differ in exactly one of these fields and in
\* nothing else.
OneFieldChanged(p, q) ==
  /\ p.apiSecret = q.apiSecret
  /\ p.verb = q.verb
  /\ Cardinality(FieldsChanged(p, q)) = 1

\* C20: when the params just signed differ from the params signed before
\* in exactly one of timestamp, path, body and subaccountId, the two signing
\* payloads differ and so do the two signatures.
C20_OneFieldChangesSignature ==
  (prevCall # NoCall /\ OneFieldChanged(prevCall.params, signIn)) =>
    /\ SigningPayload(signIn) # SigningPayload(prevCall.params)
    /\ signature # prevCall.signature

\* A non-empty subaccountId was added to params that had none, and signed.
C20_Witness ==
  /\ prevCall # NoCall
  /\ prevCall.params.subaccountId = Undefined
  /\ signIn = [prevCall.params EXCEPT !.subaccountId = <<"a">>]
  /\ signature.msg = prevCall.signature.msg \o <<"a">>

\* ---------------------------------------------------------------- C22
\* A non-empty string of exactly 64 characters, each in [0-9a-fA-F].
WellFormedCredential(v) ==
  /\ v.type = "string"
  /\ v.len = 64
  /\ v.len # 0
  /\ \A ch \in v.chars : ch \in HexDigits

\* C22: validateCredentials returns without an error exactly when both
\* arguments are non-empty strings of 64 hexadecimal characters, throws for
\* every other pair, and the call changes nothing but its own result.
C22_ValidateAcceptsExactlyWellFormed ==
  /\ [](outcome.op = "validateCredentials" =>
          (outcome.error = "none" <=>
             WellFormedCredential(outcome.apiKey) /\ WellFormedCredential(outcome.apiSecret)))
  /\ [][outcome'.op = "validateCredentials" =>
          UNCHANGED <<client, session, wire, sessionVars, signVars>>]_vars

\* A well-formed key with a 64-character secret that holds a 'g' was
\* rejected as not hexadecimal.
C22_Witness ==
  /\ outcome.op = "validateCredentials"
  /\ WellFormedCredential(outcome.apiKey)
  /\ outcome.apiSecret = Str(64, {"a", "g"})
  /\ outcome.error = "Invalid API secret: must be hexadecimal"

\* Two well-formed values, in upper and lower case, were accepted.
C22_Accepted ==
  /\ outcome.op = "validateCredentials"
  /\ outcome.apiKey = Str(64, {"a", "F"})
  /\ outcome.apiSecret = Str(64, {"a"})
  /\ outcome.error = "none"

\* ---------------------------------------------------------------- C23
\* A config that gives only one of apiKey and apiSecret.
PartialCredentials(config) ==
  (config.apiKey.type = "undefined") # (config.apiSecret.type = "undefined")

\* A config that gives both, one of them of a wrong length or with a
\* character that is not hexadecimal.
MalformedCredentials(config) ==
  /\ config.apiKey.type # "undefined"
  /\ config.apiSecret.type # "undefined"
  /\ ~(WellFormedCredential(config.apiKey) /\ WellFormedCredential(config.apiSecret))

\* C23: new ValrClient with partial or malformed credentials throws a
\* configuration error (ValrConfigurationError, or the Error of
\* validateCredentials), and no client, interceptor or API group exists
\* afterwards.
C23_BadCredentialsRefused ==
  (/\ outcome.op = "new ValrClient"
   /\ PartialCredentials(outcome.config) \/ MalformedCredentials(outcome.config))
  => /\ outcome.error.class \in {"ValrConfigurationError", "Error"}
     /\ client = NoClient

\* The same for credentials that are not the empty string: this holds.
C23_NonEmptyBadCredentialsRefused ==
  (/\ outcome.op = "new ValrClient"
   /\ PartialCredentials(outcome.config) \/ MalformedCredentials(outcome.config)
   /\ Str(0, {}) \notin {outcome.config.apiKey, outcome.config.apiSecret})
  => /\ outcome.error.class \in {"ValrConfigurationError", "Error"}
     /\ client = NoClient

\* ---------------------------------------------------------------- C24
\* The request or handshake on the wire carries a signature.
Signed == wire.via # "none" /\ wire.headers["X-VALR-SIGNATURE"].present

\* C24: whatever is signed is signed with an apiKey/apiSecret pair that
\* validateCredentials accepts.
C24_SignsOnlyWithValidatedCredentials ==
  Signed =>
    /\ WellFormedCredential(wire.headers["X-VALR-API-KEY"].value)
    /\ WellFormedCredential(wire.signed.apiSecret)

\* The REST client's part of C24: this holds.
C24_ClientSignsOnlyWithValidatedCredentials ==
  (Signed /\ wire.via = "http") =>
    /\ WellFormedCredential(wire.headers["X-VALR-API-KEY"].value)
    /\ WellFormedCredential(wire.signed.apiSecret)

\* The credentials a client or a session holds never change.
C24_CredentialsNeverChange ==
  [][/\ client.built => (client'.built /\ client'.apiKey = client.apiKey
                                       /\ client'.apiSecret = client.apiSecret)
     /\ session.built => (session'.built /\ session'.apiKey = session.apiKey
                                         /\ session'.apiSecret = session.apiSecret)]_vars

\* ---------------------------------------------------------------- C25
\* C25: a signed request or handshake carries, as X-VALR-TIMESTAMP, the
\* decimal string of the timestamp that was given to signRequest for the
\* signature it carries as X-VALR-SIGNATURE.
C25_TimestampHeaderIsTheSignedTimestamp ==
  Signed =>
    /\ wire.headers["X-VALR-SIGNATURE"].value = signRequest(wire.signed)
    /\ wire.headers["X-VALR-TIMESTAMP"].present
    /\ wire.headers["X-VALR-TIMESTAMP"].value = Decimal(wire.signed.timestamp)

\* A request signed at the later of the two clock readings is on the wire.
C25_Witness ==
  /\ Signed
  /\ wire.via = "http"
  /\ wire.signed.timestamp = MaxTimestamp
  /\ Len(wire.headers["X-VALR-TIMESTAMP"].value) = 2

\* A signed handshake is on the wire.
C25_HandshakeSigned ==
  /\ Signed
  /\ wire.via = "ws"
  /\ wire.headers["X-VALR-TIMESTAMP"].value = <<"1">>

\* ---------------------------------------------------------------- C26
\* The sub-account id configured on the object that made the last request or
\* handshake, '' when none is.
Configured ==
  LET id == IF wire.via = "http" THEN client.subaccountId ELSE session.subaccountId
  IN IF id = Undefined THEN <<>> ELSE id

\* The sub-account id that went into the signing payload.
SignedSubaccountId == OrEmpty(wire.signed.subaccountId)

\* C26: on a signed request or handshake the X-VALR-SUB-ACCOUNT-ID header is
\* there exactly when the sub-account id configured at that moment is not
\* empty, and the id in the signing payload is the header's value when the
\* header is there and '' when it is not.
C26_SubaccountHeaderMatchesPayload ==
  /\ [](Signed =>
          /\ wire.headers["X-VALR-SIGNATURE"].value = signRequest(wire.signed)
          /\ (wire.headers["X-VALR-SUB-ACCOUNT-ID"].present
                <=> SignedSubaccountId # <<>>)
          /\ (wire.headers["X-VALR-SUB-ACCOUNT-ID"].present
                => wire.headers["X-VALR-SUB-ACCOUNT-ID"].value = SignedSubaccountId))
  /\ [][(wire' # wire /\ wire'.via # "none"
           /\ wire'.headers["X-VALR-SIGNATURE"].present)
          => (wire'.headers["X-VALR-SUB-ACCOUNT-ID"].present <=> Configured' # <<>>)]_vars

\* A handshake signed for sub-account '1' is on the wire with the header.
C26_Witness ==
  /\ Signed
  /\ wire.via = "ws"
  /\ wire.headers["X-VALR-SUB-ACCOUNT-ID"] = Header(<<"1">>)
  /\ wire.signed.subaccountId = <<"1">>

\* A request signed while the sub-account id was '' is on the wire without
\* the header.
C26_EmptyIdNoHeader ==
  /\ Signed
  /\ wire.via = "http"
  /\ wire.signed.subaccountId = <<>>
  /\ ~wire.headers["X-VALR-SUB-ACCOUNT-ID"].present

\* ---------------------------------------------------------------- C27
\* C27: on a signed HTTP request the path given to signRequest is the url
\* handed to the transport, and no params object is left on the request for
\* the transport to serialise.
C27_SignedPathIsSentUrl ==
  (Signed /\ wire.via = "http") =>
    /\ wire.signed.path = wire.url
    /\ ~wire.params.given

\* The same for a client of the first definition: this holds.
C27_FirstDefinitionSignsSentUrl ==
  (Signed /\ wire.via = "http" /\ client.definition = "first") =>
    /\ wire.signed.path = wire.url
    /\ ~wire.params.given

\* A client of the first definition has signed and sent a url with a query.
C27_FirstDefinitionQuerySigned ==
  /\ Signed
  /\ wire.via = "http"
  /\ client.definition = "first"
  /\ wire.url = <<"/", "x", "?", "a", "=", "1", "&", "b", "=", "1">>
  /\ wire.signed.path = wire.url

\* ---------------------------------------------------------------- C28
\* The kind of an error thrown to the caller of an API method: the network
\* kind is a ValrApiError that carries no status code.
KindOf(e) ==
  CASE e.class = "ValrRateLimitError" -> "rate-limit"
    [] e.class = "ValrAuthenticationError" -> "authentication"
    [] e.class = "ValrValidationError" -> "validation"
    [] e.class = "ValrApiError" /\ e.statusCode # None -> "generic"
    [] e.class = "ValrApiError" /\ e.statusCode = None -> "network"

\* The kind C28 gives a failed outcome.
KindByRule(response, status, rateLimited) ==
  IF ~response THEN "network"
  ELSE IF status = 429 \/ rateLimited = "true" THEN "rate-limit"
  ELSE IF status \in {401, 403} THEN "authentication"
  ELSE IF status = 400 THEN "validation"
  ELSE "generic"

C28_NetworkError ==
  /\ outcome.op = "response"
  /\ ~outcome.failure.response
  /\ outcome.error.class = "ValrApiError"
  /\ outcome.error.statusCode = None

\* ---------------------------------------------------------------- C29
\* C29: new AccountWebSocket throws and builds no session unless apiKey and
\* apiSecret are both given; new TradeWebSocket without credentials builds
\* one, and its handshake carries none of the four authentication headers.
C29_AccountNeedsCredentialsTradeDoesNot ==
  /\ (/\ outcome.op = "new WebSocket session"
      /\ outcome.kind = "account"
      /\ Falsy(outcome.config.apiKey) \/ Falsy(outcome.config.apiSecret))
     => (outcome.error # NoError /\ session = NoSession)
  /\ (/\ outcome.op = "new WebSocket session"
      /\ outcome.kind = "trade"
      /\ outcome.config.apiKey = UndefinedValue
      /\ outcome.config.apiSecret = UndefinedValue)
     => (outcome.error = NoError /\ session.built /\ session.kind = "trade")
  /\ (/\ wire.via = "ws"
      /\ session.kind = "trade"
      /\ Falsy(session.apiKey) /\ Falsy(session.apiSecret))
     => \A name \in DOMAIN wire.headers : ~wire.headers[name].present

\* A market-data session built without credentials has connected, and its
\* handshake is on the wire.
C29_Witness ==
  /\ session.built
  /\ session.kind = "trade"
  /\ session.apiKey = Str(0, {})
  /\ session.apiSecret = Str(0, {})
  /\ outcome.op = "connect"
  /\ wire.via = "ws"
  /\ wire.headers = NoAuthHeaders

\* new AccountWebSocket with a key and no secret has thrown.
C29_AccountRefused ==
  /\ outcome.op = "new WebSocket session"
  /\ outcome.kind = "account"
  /\ WellFormedCredential(outcome.config.apiKey)
  /\ outcome.config.apiSecret = UndefinedValue
  /\ outcome.error.class = "Error"
  /\ session = NoSession

\* ---------------------------------------------------------------- C30
\* C30: the sub-account id of a client is the constructor's value until
\* setSubaccountId is called and then the argument of the latest call;
\* getSubaccountId returns it; a request signed afterwards is signed with it
\* and carries it as header (no header when it is empty); and
\* setSubaccountId changes no other field and nothing else.
C30_SubaccountIdIsLatestSet ==
  /\ []((outcome.op = "new ValrClient" /\ client.built)
          => client.subaccountId = outcome.config.subaccountId)
  /\ [](outcome.op = "setSubaccountId" => client.subaccountId = outcome.arg)
  /\ [](outcome.op = "getSubaccountId" => outcome.result = client.subaccountId)
  /\ [][(client.built /\ client'.subaccountId # client.subaccountId)
          => (outcome'.op = "setSubaccountId" /\ outcome' # outcome)]_vars
  /\ [][(outcome'.op = "setSubaccountId" /\ outcome' # outcome)
          => /\ client' = [client EXCEPT !.subaccountId = outcome'.arg]
             /\ UNCHANGED <<wire, session, sessionVars, signVars>>]_vars
  /\ []((outcome.op = "request" /\ Signed)
          => /\ OrEmpty(wire.signed.subaccountId) = OrEmpty(client.subaccountId)
             /\ wire.headers["X-VALR-SUB-ACCOUNT-ID"] =
                  IF OrEmpty(client.subaccountId) = <<>> THEN NoHeader(<<>>)
                  ELSE Header(client.subaccountId))

\* The id was set to '1', a request was signed with it, and then the id was
\* cleared.
C30_Witness ==
  /\ outcome.op = "setSubaccountId"
  /\ outcome.arg = Undefined
  /\ client.subaccountId = Undefined
  /\ Signed
  /\ wire.via = "http"
  /\ wire.signed.subaccountId = <<"1">>

\* After the id was cleared, a request was signed without it.
C30_SignedAfterClearing ==
  /\ outcome.op = "request"
  /\ client.subaccountId = Undefined
  /\ Signed
  /\ OrEmpty(wire.signed.subaccountId) = <<>>
  /\ ~wire.headers["X-VALR-SUB-ACCOUNT-ID"].present

C31_FirstAgain ==
  /\ op = "close"
  /\ pingIntervals = 2
  /\ \E i \in Entries("reconnecting") : log[i].arg = 1

\* ---------------------------------------------------------------- C32
\* C32: a limit N that is configured is honoured for every N >= 0: the
\* counter never exceeds N and no 'reconnecting' carries more than N; with
\* N = 0 no 'reconnecting' is emitted, no reconnect timer is ever set and no
\* timer fires, and an unintentional close emits the terminal error.
C32_ConfiguredLimitHonoured ==
  options.given =>
    /\ reconnectAttempts <= options.value
    /\ \A i \in Entries("reconnecting") : log[i].arg <= options.value
    /\ options.value = 0 =>
         /\ reconnectTimer = "undefined"
         /\ orphanTimers = 0
         /\ Entries("timer") = {}
         /\ (op = "close" /\ Passive /\ ~isIntentionalClose)
              => Entries("error:MaxReconnect") # {}

\* C32 for the limits the constructor keeps: a positive N bounds the counter
\* and the numbers announced, and the option left out bounds nothing.
C32_PositiveLimitHonoured ==
  (options.given /\ options.value > 0) =>
    /\ cfg.maxReconnectAttempts = options.value
    /\ reconnectAttempts <= options.value
    /\ \A i \in Entries("reconnecting") : log[i].arg <= options.value

\* A limit of 1 stopped the reconnects.
C32_LimitOneReached ==
  /\ options = Given(1)
  /\ op = "close"
  /\ Entries("error:MaxReconnect") # {}

\* The limit 0 is read as no limit.
C32_ZeroIsUnbounded ==
  /\ options = Given(0)
  /\ cfg.maxReconnectAttempts = Infinity
  /\ op = "close"
  /\ Entries("reconnecting") # {}

\* ---------------------------------------------------------------- C33
\* C33: the close event of a transport the session no longer refers to,
\* its handlers only listening, leaves isConnected and isAuthenticated as
\* they were, emits no 'reconnecting' and sets no reconnect timer; and
\* whenever this.ws is OPEN (its open callback has then run) isConnected is
\* set.
C33_StaleCloseIsHarmless ==
  /\ [](ws = "OPEN" => isConnected)
  /\ [][ (op' = "close" /\ Passive' /\ released' # released) =>
           /\ isConnected' = isConnected
           /\ isAuthenticated' = isAuthenticated
           /\ Entries("reconnecting")' = {}
           /\ reconnectAttempts' = reconnectAttempts
           /\ reconnectTimer' = reconnectTimer
           /\ orphanTimers' = orphanTimers
       ]_vars

\* C33, its conclusion alone.
C33_OpenImpliesConnected == ws = "OPEN" => isConnected

\* ---------------------------------------------------------------- C34
\* C34: no reconnect timer is pending whose handle the session does not
\* hold; with the one this.reconnectTimer may refer to, at most one is
\* pending.
C34_OneReconnectTimer == orphanTimers = 0

\* ---------------------------------------------------------------- C35
\* C35: with autoReconnect and no limit, after the close of the transport
\* this.ws refers to, which is then CLOSED, an open callback eventually
\* emits 'connected' for a transport this.ws refers to.
C35_ReconnectsEventually ==
  (op = "close" /\ ws = "CLOSED")
    ~> (op = "open" /\ ws = "OPEN" /\ Entries("connected") # {})

\* A connection that had been open and authenticated was lost and the
\* close callback scheduled a reconnect.
C35_Witness ==
  /\ op = "close"
  /\ ws = "CLOSED"
  /\ pingIntervals > 0
  /\ reconnectTimer = "pending"
  /\ Entries("reconnecting") # {}

\* The connection made by a reconnect timer opened.
C35_Reopened ==
  /\ op = "open"
  /\ ws = "OPEN"
  /\ pingIntervals = 2
  /\ reconnectTimer = "fired"

\* ---------------------------------------------------------------- C36
\* C36: an open callback of the account session that leaves this.ws OPEN
\* has written one SUBSCRIBE, after 'authenticated', to the transport that
\* opened; no other call or callback of the session writes one by itself;
\* and the market-data session never does, on the first open or on a later
\* one.
C36_AutoSubscribePerOpen ==
  /\ (op = "open" /\ cfg.kind = "account" /\ ws = "OPEN") =>
       \E j, k \in DOMAIN log :
         /\ Entries("authenticated") = {j}
         /\ Entries("SUBSCRIBE") = {k}
         /\ j < k
         /\ log[k].by = "send"
         /\ log[k].arg = 1
         /\ thrown = "none"
  /\ Entries("SUBSCRIBE") # {} => (op = "open" /\ cfg.kind = "account")
  /\ cfg.kind = "trade" => Entries("SUBSCRIBE") = {}

\* The account session opened again through a reconnect timer and
\* subscribed again.
C36_Witness ==
  /\ op = "open"
  /\ cfg.kind = "account"
  /\ reconnectTimer = "fired"
  /\ pingIntervals = 2
  /\ ws = "OPEN"
  /\ Entries("SUBSCRIBE") # {}

\* The market-data session, with credentials, opened again through a
\* reconnect timer and wrote nothing.
C36_TradeSilent ==
  /\ op = "open"
  /\ cfg.kind = "trade"
  /\ reconnectTimer = "fired"
  /\ pingIntervals = 2
  /\ ws = "OPEN"
  /\ Entries("authenticated") # {}

\* ---------------------------------------------------------------- C37
\* C37: a session constructed without apiKey, without apiSecret or without
\* both is never authenticated: isAuthenticated is false in every state and
\* whenever a handler runs, no 'authenticated' is emitted, the post-auth
\* hook writes no SUBSCRIBE, no keep-alive interval is started and no PING
\* is written; its open callback emits 'connected' and nothing else.
C37_NoCredentialsNoAuthentication ==
  ~(cfg.apiKey /\ cfg.apiSecret) =>
    /\ ~isAuthenticated
    /\ pingIntervals = 0
    /\ \A i \in DOMAIN log :
         /\ log[i].ev \notin {"authenticated", "SUBSCRIBE", "PING"}
         /\ ~log[i].auth
    /\ op # "ping"
    /\ op = "open" =>
         /\ Entries("connected") = {1}
         /\ \A i \in DOMAIN log : log[i].ev \in {"connected", "ws.close"}
         /\ Passive => Len(log) = 1

\* A session given an apiKey and no apiSecret opened.
C37_Witness ==
  /\ cfg.apiKey /\ ~cfg.apiSecret
  /\ op = "open"
  /\ ws = "OPEN"
  /\ isConnected
  /\ Entries("connected") # {}

\* A session given neither opened again after a reconnect.
C37_Reopened ==
  /\ ~cfg.apiKey /\ ~cfg.apiSecret
  /\ op = "open"
  /\ reconnectTimer = "fired"
  /\ ws = "OPEN"

\* ---------------------------------------------------------------- C38
\* C38: the message callback emits the 'Failed to parse message' error
\* only for a payload that JSON.parse rejects: for a payload that parses
\* (the callback then emits 'message' first) no such error is emitted,
\* whatever the handlers do and whatever the value is.
C38_ParseErrorOnlyForBadJson ==
  Entries("error:Parse") # {} => Unparseable

\* A 'message' handler threw on a JSON object and the parse error was
\* emitted.
C38_HandlerThrew ==
  /\ op = "message"
  /\ log[1].ev = "message"
  /\ log[1].by = "throw"
  /\ Entries("error:Parse") # {}

\* ---------------------------------------------------------------- C39
\* key=value, and whether a params object has a value to send at a key.
Pair(params, k) == <<k, "=">> \o params.at[k]

Kept(params, k) == params.at[k] \notin {Undefined, Null}

\* The query the claim describes, for the keys a < b.
QueryOf(params) ==
  CASE Kept(params, "a") /\ Kept(params, "b")
         -> Pair(params, "a") \o <<"&">> \o Pair(params, "b")
    [] Kept(params, "a") /\ ~Kept(params, "b") -> Pair(params, "a")
    [] ~Kept(params, "a") /\ Kept(params, "b") -> Pair(params, "b")
    [] OTHER -> <<>>

PathOf(config) ==
  IF QueryOf(config.params) = <<>> THEN config.url
  ELSE config.url \o <<"?">> \o QueryOf(config.params)

QuestionMarks(path) == Cardinality({i \in DOMAIN path : path[i] = "?"})

\* C39: a signed request made with a params object is signed for, and sent
\* to, url?query, the query being the key=value pairs of the values that
\* are neither null nor undefined, by ascending key, joined by '&', values
\* as given; without such a value the path is the url; no params object is
\* left for the transport to encode; and the path holds one '?' when there
\* is a query and none otherwise.
C39_QueryIsSignedAndSent ==
  (outcome.op = "request" /\ Signed /\ outcome.config.params.given) =>
    /\ wire.signed.path = PathOf(outcome.config)
    /\ wire.url = PathOf(outcome.config)
    /\ wire.params = NoParams
    /\ QuestionMarks(wire.url)
         = (IF QueryOf(outcome.config.params) = <<>> THEN 0 ELSE 1)

\* C39 but for the count of '?', for the first definition of the class.
C39_FirstDefinitionQuery ==
  (outcome.op = "request" /\ Signed /\ outcome.config.params.given
     /\ client.definition = "first") =>
    /\ wire.signed.path = PathOf(outcome.config)
    /\ wire.url = PathOf(outcome.config)
    /\ wire.params = NoParams
    /\ QuestionMarks(wire.url) = 1
         <=> (Kept(outcome.config.params, "a") \/ Kept(outcome.config.params, "b"))
               /\ outcome.config.params.at["a"] # <<"?">>

\* The first definition signed /x?a=1&b=1.
C39_TwoPairsSigned ==
  /\ outcome.op = "request"
  /\ Signed
  /\ client.definition = "first"
  /\ wire.signed.path = <<"/", "x", "?", "a", "=", "1", "&", "b", "=", "1">>

\* The first definition signed /x?a=?, a path with two '?'.
C39_ValueWithQuestionMark ==
  /\ outcome.op = "request"
  /\ Signed
  /\ client.definition = "first"
  /\ wire.url = <<"/", "x", "?", "a", "=", "?">>

====
